---- MODULE Spec2Model ----
(***************************************************************************)
(* A model of the sparse-matrix kernel core of the repository:             *)
(*   - the SpGEMM multi-way merge (common/matrix/csr_kernels_spgemm),      *)
(*   - the executor dispatch (core/base/executor.hpp),                     *)
(*   - the distributed Dense operations (core/matrix/dense.cpp).           *)
(* Arrays are functions over 0..n-1, as in the source.                     *)
(***************************************************************************)
EXTENDS Integers, Sequences, FiniteSets, TLC

(***************************************************************************)
(* Bounds of the model                                                     *)
(***************************************************************************)
\* most rows of B (= columns of A); the two rows of A share them
MaxK == 15
\* most calls of Executor::run
MaxRuns == 3
\* the ranks of the communicator
NumRanks == 2
\* most global rows of a distributed vector or matrix
MaxRows == 3
\* most constructions of executors
MaxExecs == 2
\* most calls of distributed_create
MaxCreate == 3
\* max_nnz_per_row of the ELL matrices
MaxSlots == 2
\* most entries of the COO part of a HYBRID matrix
MaxCoo == 3
\* most calls on a Dense matrix
MaxCalls == 2

(***************************************************************************)
(* Program constants                                                       *)
(***************************************************************************)
\* device_numeric_limits<IndexType>::max for a 32 bit index
sentinel == 2147483647
spgemm_child_count == 2

\* config::warp_size is 32 (CUDA) or 64 (HIP); the merge is generic in it and
\* the model runs it with warps of 2 and 4 lanes, so that rows of at most
\* MaxK entries reach all three tiers.
WarpSizes == {2, 4}
\* spgemm_block_size is 128 = 4 warps of 32 lanes; kept at 4 warps per block
warps_per_block == 4

\* the columns of B, and the rows B is built from: increasing column lists
ColumnsOfB == 0 .. 2
RowShapes == {<< >>, <<0>>, <<1, 2>>, <<0, 1, 2>>}

Min(a, b) == IF a < b THEN a ELSE b

RECURSIVE SetMin(_)
SetMin(S) ==
    LET x == CHOOSE x \in S : TRUE
    IN  IF S = {x} THEN x ELSE Min(x, SetMin(S \ {x}))

RECURSIVE SetSum(_, _)
\* the sum of f over the finite set S
SetSum(f, S) ==
    IF S = {} THEN 0
    ELSE LET x == CHOOSE x \in S : TRUE
         IN  f[x] + SetSum(f, S \ {x})

\* checked_load(p, i, size, sentinel): p[i] when i < size, otherwise sentinel
checked_load(p, i, size, snt) == IF i < size THEN p[i] ELSE snt

(***************************************************************************)
(* State of the SpGEMM kernels                                             *)
(***************************************************************************)
VARIABLES
    warp_size,                  \* config::warp_size of the build
    a_row_ptrs, a_cols, a_vals, \* CSR A
    b_row_ptrs, b_cols, b_vals, \* CSR B
    phase,                      \* "count", "scan", "kernel", "done"
    row,                        \* the row the warp works on
    pc,                         \* "start", "short", "medium", "large", "end"
    max_num_rows,               \* template parameter of the short merge
    reg,                        \* the lanes' registers
    sh_cols, sh_idxs, sh_ends, sh_vals,  \* the block's shared-memory heaps
    tmp, tmpval,                \* global scratch
    min_col,                    \* min_col of the medium and large loop
    nnz,                        \* spgemm_count's counter of the row
    c_nz, c_val,                \* spgemm_kernel's position and accumulator
    c_nnz, c_row_ptrs, c_cols, c_vals,   \* the result
    c_written,                  \* <<row, position>> of every write to C
    iters                       \* iterations of the row's merge loop

spgemm_vars == <<warp_size, a_row_ptrs, a_cols, a_vals, b_row_ptrs, b_cols,
                 b_vals, phase, row, pc, max_num_rows, reg, sh_cols, sh_idxs,
                 sh_ends, sh_vals, tmp, tmpval, min_col, nnz, c_nz, c_val,
                 c_nnz, c_row_ptrs, c_cols, c_vals, c_written, iters>>

(***************************************************************************)
(* State of the executors                                                  *)
(***************************************************************************)
VARIABLES
    exec_log                    \* the events of the calls of Executor::run

exec_vars == <<exec_log>>

(***************************************************************************)
(* State of the distributed Dense operations                               *)
(***************************************************************************)
VARIABLES
    dist_in,                    \* the operation and its distributed operands
    root_rank,                  \* root_rank_ of every rank's MpiExecutor
    dist_pc,                    \* where every rank is in the operation
    dist_loc,                   \* the locals of every rank
    dist_out,                   \* x, result or the gathered matrix per rank
    dist_log                    \* the kernels and collectives of every rank

dist_vars == <<dist_in, root_rank, dist_pc, dist_loc, dist_out, dist_log>>

(***************************************************************************)
(* State of the executors' construction and destruction                    *)
(***************************************************************************)
VARIABLES
    acc_execs,                  \* the executor objects
    num_execs,                  \* CudaExecutor::num_execs, HipExecutor's
    mutex,                      \* CudaExecutor::mutex, HipExecutor's
    acc_thr,                    \* the host threads
    acc_reset                   \* the calls of the device reset

acc_vars == <<acc_execs, num_execs, mutex, acc_thr, acc_reset>>

(***************************************************************************)
(* State of the creation of distributed matrices                           *)
(***************************************************************************)
VARIABLES
    created,                    \* the calls of distributed_create
    coo_global,                 \* the data given to create_and_distribute
    row_dist,                   \* the row distribution of every rank
    coo_local                   \* the matrix every rank holds afterwards

mtx_vars == <<created, coo_global, row_dist, coo_local>>

(***************************************************************************)
(* State of the ELL and HYBRID kernels                                     *)
(***************************************************************************)
VARIABLES
    ell,                        \* the ELL matrix (the ELL part of a HYBRID)
    coo,                        \* the COO part of a HYBRID matrix
    ell_out                     \* what the kernel launched last has written

ell_vars == <<ell, coo, ell_out>>

(***************************************************************************)
(* State of the subwarps that build the heap of the large merge            *)
(***************************************************************************)
VARIABLES
    build         \* subwarp_id -> the node i of its loop, whether it is in
                  \* sift_down, and sift_down's i and parent_col

build_vars == <<build>>

(***************************************************************************)
(* State of Dense::read, write, scale and add_scaled                       *)
(***************************************************************************)
VARIABLES
    dense_mtx,    \* the matrix: its size and its values by (row, col)
    dense_in,     \* the matrix_data of the last read since the last change
    dense_data,   \* the matrix_data of the last write
    dense_call,   \* the last call: its operands' sizes and its outcome
    dense_calls   \* the number of calls made

rw_vars == <<dense_mtx, dense_in, dense_data, dense_call, dense_calls>>

\* what the SpGEMM kernels leave alone
not_spgemm == <<exec_vars, dist_vars, acc_vars, mtx_vars, ell_vars,
    build_vars, rw_vars>>
\* what the executors leave alone
not_exec == <<spgemm_vars, dist_vars, acc_vars, mtx_vars, ell_vars,
    build_vars, rw_vars>>
\* what the distributed operations leave alone
not_dist == <<spgemm_vars, exec_vars, acc_vars, mtx_vars, ell_vars,
    build_vars, rw_vars>>
\* what the construction and destruction of executors leave alone
not_acc == <<spgemm_vars, exec_vars, dist_vars, mtx_vars, ell_vars,
    build_vars, rw_vars>>
\* what the creation of distributed matrices leaves alone
not_mtx == <<spgemm_vars, exec_vars, dist_vars, acc_vars, ell_vars,
    build_vars, rw_vars>>
\* what the ELL and HYBRID kernels leave alone
not_ell == <<spgemm_vars, exec_vars, dist_vars, acc_vars, mtx_vars,
    build_vars, rw_vars>>

\* what the subwarps that build a heap leave alone, the merge aside
not_build == <<exec_vars, dist_vars, acc_vars, mtx_vars, ell_vars, rw_vars>>
\* what the calls on a Dense matrix leave alone
not_rw == <<spgemm_vars, exec_vars, dist_vars, acc_vars, mtx_vars, ell_vars,
    build_vars>>

vars == <<spgemm_vars, exec_vars, dist_vars, acc_vars, mtx_vars, ell_vars,
         build_vars, rw_vars>>

(***************************************************************************)
(* The inputs: B has k rows that repeat a base of three rows, A has two    *)
(* rows; row 0 references the last s rows of B, row 1 the others, and one  *)
(* of the two rows of A has at most two entries.                           *)
(***************************************************************************)
BaseRows == RowShapes \X RowShapes \X RowShapes

RowsOfB(base, k) == [r \in 0 .. k - 1 |-> base[(r % Len(base)) + 1]]

RECURSIVE RowPtr(_, _)
\* the CSR row pointer of row r for the rows given as column lists
RowPtr(rows, r) == IF r = 0 THEN 0 ELSE RowPtr(rows, r - 1) + Len(rows[r - 1])

RowPtrsOf(rows, k) == [r \in 0 .. k |-> RowPtr(rows, r)]

ColsOf(rows, k) ==
    LET ptr == RowPtrsOf(rows, k)
    IN  [p \in 0 .. ptr[k] - 1 |->
            LET r == CHOOSE r \in 0 .. k - 1 : ptr[r] <= p /\ p < ptr[r + 1]
            IN  rows[r][p - ptr[r] + 1]]

Lanes == 0 .. warp_size - 1

num_rows == Cardinality(DOMAIN a_row_ptrs) - 1
a_begin == a_row_ptrs[row]
a_end == a_row_ptrs[row + 1]
a_size == a_end - a_begin
use_val == phase = "kernel"
\* threadIdx.x / warp_size * warp_size for the warp that owns the row
warp_base == (row % warps_per_block) * warp_size
heap_size == warp_size * spgemm_child_count

\* a_cols + a_begin and a_vals + a_begin
a_cols_row == [i \in 0 .. a_size - 1 |-> a_cols[a_begin + i]]
a_vals_row == [i \in 0 .. a_size - 1 |-> a_vals[a_begin + i]]

\* a read of b_vals; past the end of the array it yields whatever is there
Garbage == {0, 1}
b_vals_at(i, g) == IF i \in DOMAIN b_vals THEN b_vals[i] ELSE g

IdleReg == [b_col |-> sentinel, b_idx |-> 0, b_end |-> 0, a_val |-> 0,
            b_val |-> 0, subwarp_left |-> 0]

SpgemmInit ==
    /\ warp_size \in WarpSizes
    /\ \E base \in BaseRows, k \in 0 .. MaxK :
         \E s \in {x \in 0 .. k : x <= 2 \/ x >= k - 2} :
           LET rows == RowsOfB(base, k)
           IN  /\ a_row_ptrs = [r \in 0 .. 2 |->
                                   IF r = 0 THEN 0 ELSE IF r = 1 THEN s ELSE k]
               /\ a_cols = [j \in 0 .. k - 1 |->
                               IF j < s THEN k - s + j ELSE j - s]
               /\ a_vals = [j \in 0 .. k - 1 |-> j + 1]
               /\ b_row_ptrs = RowPtrsOf(rows, k)
               /\ b_cols = ColsOf(rows, k)
               /\ b_vals = [p \in DOMAIN ColsOf(rows, k) |-> p + 1]
               /\ tmp = [i \in 0 .. 3 * k - 1 |-> 0]
               /\ tmpval = [i \in 0 .. k - 1 |-> 0]
    /\ phase = "count"
    /\ row = 0
    /\ pc = "start"
    /\ max_num_rows = 0
    /\ reg = [l \in Lanes |-> IdleReg]
    /\ sh_cols = [i \in 0 .. heap_size * warps_per_block - 1 |-> 0]
    /\ sh_idxs = [i \in 0 .. heap_size * warps_per_block - 1 |-> 0]
    /\ sh_ends = [i \in 0 .. heap_size * warps_per_block - 1 |-> 0]
    /\ sh_vals = [i \in 0 .. heap_size * warps_per_block - 1 |-> 0]
    /\ min_col = sentinel
    /\ nnz = 0
    /\ c_nz = 0
    /\ c_val = 0
    /\ c_nnz = [r \in 0 .. 1 |-> 0]
    /\ c_row_ptrs = [r \in 0 .. 2 |-> 0]
    /\ c_cols = << >>
    /\ c_vals = << >>
    /\ c_written = {}
    /\ iters = 0

\* no product is being computed
SpgemmIdle ==
    /\ warp_size = 2
    /\ a_row_ptrs = [r \in 0 .. 2 |-> 0]
    /\ a_cols = << >>
    /\ a_vals = << >>
    /\ b_row_ptrs = [r \in 0 .. 0 |-> 0]
    /\ b_cols = << >>
    /\ b_vals = << >>
    /\ tmp = << >>
    /\ tmpval = << >>
    /\ phase = "done"
    /\ row = 0
    /\ pc = "start"
    /\ max_num_rows = 0
    /\ reg = [l \in Lanes |-> IdleReg]
    /\ sh_cols = [i \in 0 .. heap_size * warps_per_block - 1 |-> 0]
    /\ sh_idxs = [i \in 0 .. heap_size * warps_per_block - 1 |-> 0]
    /\ sh_ends = [i \in 0 .. heap_size * warps_per_block - 1 |-> 0]
    /\ sh_vals = [i \in 0 .. heap_size * warps_per_block - 1 |-> 0]
    /\ min_col = sentinel
    /\ nnz = 0
    /\ c_nz = 0
    /\ c_val = 0
    /\ c_nnz = [r \in 0 .. 1 |-> 0]
    /\ c_row_ptrs = [r \in 0 .. 2 |-> 0]
    /\ c_cols = << >>
    /\ c_vals = << >>
    /\ c_written = {}
    /\ iters = 0

(***************************************************************************)
(* The callbacks of spgemm_count and spgemm_kernel, as seen by lane 0      *)
(***************************************************************************)
\* the state the callbacks work on
CbState == [nnz |-> nnz, c_nz |-> c_nz, c_val |-> c_val, c_cols |-> c_cols,
            c_vals |-> c_vals, c_written |-> c_written]

step_cb(cb, val) ==
    IF use_val THEN [cb EXCEPT !.c_val = @ + val] ELSE cb

col_cb(cb, c_col) ==
    IF use_val
    THEN [cb EXCEPT
            !.c_cols = IF cb.c_nz \in DOMAIN @
                       THEN [@ EXCEPT ![cb.c_nz] = c_col] ELSE @,
            !.c_vals = IF cb.c_nz \in DOMAIN @
                       THEN [@ EXCEPT ![cb.c_nz] = cb.c_val] ELSE @,
            !.c_written = @ \cup {<<row, cb.c_nz>>},
            !.c_nz = @ + 1,
            !.c_val = 0]
    ELSE [cb EXCEPT !.nnz = @ + 1]

SetCb(cb) ==
    /\ nnz' = cb.nnz
    /\ c_nz' = cb.c_nz
    /\ c_val' = cb.c_val
    /\ c_cols' = cb.c_cols
    /\ c_vals' = cb.c_vals
    /\ c_written' = cb.c_written

inputs == <<warp_size, a_row_ptrs, a_cols, a_vals, b_row_ptrs, b_cols, b_vals>>
shared == <<sh_cols, sh_idxs, sh_ends, sh_vals>>
scratch == <<tmp, tmpval>>
result == <<c_nnz, c_row_ptrs>>

(***************************************************************************)
(* spgemm_multiway_merge_short                                             *)
(***************************************************************************)
\* subwarp_size of the short merge
short_subwarp_size == warp_size \div max_num_rows

\* the registers of lane l before the loop, for max_num_rows = m
ShortInitReg(l, m) ==
    LET subwarp_size == warp_size \div m
        subwarp_rank == l % subwarp_size
        subwarp_id == l \div subwarp_size
        a_idx == subwarp_id
        idle_subwarp == a_idx >= a_size
        a_col == checked_load(a_cols_row, a_idx, a_size, sentinel)
        a_val == IF use_val /\ a_idx < a_size THEN a_vals_row[a_idx] ELSE 0
        b_begin == IF idle_subwarp THEN 0 ELSE b_row_ptrs[a_col]
        b_end == IF idle_subwarp THEN 0 ELSE b_row_ptrs[a_col + 1]
        b_idx == b_begin + subwarp_rank
    IN  [b_col |-> checked_load(b_cols, b_idx, b_end, sentinel),
         b_idx |-> b_idx,
         b_end |-> b_end,
         a_val |-> a_val,
         b_val |-> IF use_val /\ b_idx < b_end THEN b_vals[b_idx] ELSE 0,
         subwarp_left |-> subwarp_size]

\* the lanes a lane exchanges with in the shfl_xor butterfly
ShortPeers(l) == {m \in Lanes : m % short_subwarp_size = l % short_subwarp_size}

ShortMinCol(l) == SetMin({reg[m].b_col : m \in ShortPeers(l)})

ShortMinMask == {l \in Lanes : reg[l].b_col = ShortMinCol(l)}

ShortSubIsMin(l) ==
    (l \div short_subwarp_size) * short_subwarp_size \in ShortMinMask

ShortProduct(l) ==
    IF ShortSubIsMin(l) THEN reg[l].a_val * reg[l].b_val ELSE 0

ShortCurVal(l) ==
    IF Cardinality(ShortMinMask) = 1
    THEN ShortProduct(SetMin(ShortMinMask))
    ELSE SetSum([m \in Lanes |-> ShortProduct(m)], ShortPeers(l))

\* the registers of lane l after "advance elements"
ShortAdvance(l) ==
    LET r == reg[l]
        b_idx == r.b_idx + 1
        reload_col == checked_load(b_cols, b_idx, r.b_end, sentinel)
        reload_val == IF use_val /\ b_idx < r.b_end THEN b_vals[b_idx] ELSE 0
        last == l % short_subwarp_size = short_subwarp_size - 1
        down == IF last THEN r ELSE reg[l + 1]
    IN  IF ~ShortSubIsMin(l) THEN r
        ELSE IF short_subwarp_size = 1
        THEN [r EXCEPT !.b_idx = b_idx, !.b_col = reload_col,
                       !.b_val = reload_val]
        ELSE IF r.subwarp_left - 1 = 0
        THEN [r EXCEPT !.b_idx = b_idx, !.b_col = reload_col,
                       !.b_val = reload_val,
                       !.subwarp_left = short_subwarp_size]
        ELSE [r EXCEPT !.b_idx = b_idx, !.b_col = down.b_col,
                       !.b_val = down.b_val, !.subwarp_left = @ - 1]

\* one iteration of the do-while loop
ShortStep ==
    /\ pc = "short"
    /\ LET new_reg == [l \in Lanes |-> ShortAdvance(l)]
       IN  /\ SetCb(col_cb(step_cb(CbState, ShortCurVal(0)), ShortMinCol(0)))
           /\ reg' = new_reg
           /\ pc' = IF \E l \in Lanes : new_reg[l].b_col < sentinel
                    THEN "short" ELSE "end"
    /\ iters' = iters + 1
    /\ UNCHANGED <<not_spgemm, inputs, shared, scratch, result, phase, row, max_num_rows,
                   min_col>>

(***************************************************************************)
(* spgemm_multiway_merge_dispatch, spgemm_count and spgemm_kernel          *)
(***************************************************************************)
\* The chain a_size <= 2, 4, 8, 16, 32, warp_size instantiates the short
\* merge with at most warp_size rows for warps of 32 and 64 lanes; for the
\* model's warps it is the part of the chain up to warp_size.
ShortWidths == {2, 4, 8, 16, 32}

\* a dispatch that runs every short row with one lane per row of B
spgemm_multiway_merge_dispatch_widest ==
    IF a_size <= warp_size
    THEN [tier |-> "short", max_num_rows |-> warp_size]
    ELSE IF a_size <= warp_size * (spgemm_child_count + 1)
    THEN [tier |-> "medium", max_num_rows |-> 0]
    ELSE [tier |-> "large", max_num_rows |-> 0]

spgemm_multiway_merge_dispatch ==
    IF a_size <= warp_size
    THEN [tier |-> "short",
          max_num_rows |->
              SetMin({m \in ShortWidths \cup {warp_size} :
                         a_size <= m /\ m <= warp_size})]
    ELSE IF a_size <= warp_size * (spgemm_child_count + 1)
    THEN [tier |-> "medium", max_num_rows |-> 0]
    ELSE [tier |-> "large", max_num_rows |-> 0]

\* a value pass that starts every row at the front of C
StartCbAtFront == [CbState EXCEPT !.nnz = 0, !.c_nz = 0, !.c_val = 0]

\* the locals of the kernels at entry
StartCb ==
    [CbState EXCEPT !.nnz = 0,
                    !.c_nz = IF use_val THEN c_row_ptrs[row] ELSE 0,
                    !.c_val = 0]

Running == phase \in {"count", "kernel"} /\ row < num_rows

\* a_size == 0: do nothing
EmptyRow ==
    /\ Running /\ pc = "start" /\ a_size = 0
    /\ SetCb(StartCb)
    /\ pc' = "end"
    /\ iters' = 0
    /\ UNCHANGED <<not_spgemm, inputs, shared, scratch, result, phase, row, max_num_rows,
                   min_col, reg>>

\* a_size == 1: the row of C is the scaled row of B
SingleRow ==
    /\ Running /\ pc = "start" /\ a_size = 1
    /\ LET a_col == a_cols[a_begin]
           a_val == a_vals[a_begin]
           b_begin == b_row_ptrs[a_col]
           b_size == b_row_ptrs[a_col + 1] - b_begin
           at == StartCb.c_nz
           dst == {at + i : i \in 0 .. b_size - 1}
       IN  IF use_val
           THEN SetCb([StartCb EXCEPT
                  !.c_cols = [p \in DOMAIN @ |->
                      IF p \in dst THEN b_cols[b_begin + (p - at)] ELSE @[p]],
                  !.c_vals = [p \in DOMAIN @ |->
                      IF p \in dst THEN a_val * b_vals[b_begin + (p - at)]
                      ELSE @[p]],
                  !.c_written = @ \cup {<<row, p>> : p \in dst}])
           ELSE SetCb([StartCb EXCEPT !.nnz = b_size])
    /\ pc' = "end"
    /\ iters' = 0
    /\ UNCHANGED <<not_spgemm, inputs, shared, scratch, result, phase, row, max_num_rows,
                   min_col, reg>>

ShortStart ==
    /\ Running /\ pc = "start" /\ a_size > 1
    /\ spgemm_multiway_merge_dispatch.tier = "short"
    /\ max_num_rows' = spgemm_multiway_merge_dispatch.max_num_rows
    /\ reg' = [l \in Lanes |->
                  ShortInitReg(l, spgemm_multiway_merge_dispatch.max_num_rows)]
    /\ SetCb(StartCb)
    /\ pc' = "short"
    /\ iters' = 0
    /\ UNCHANGED <<not_spgemm, inputs, shared, scratch, result, phase, row, min_col>>

\* the end of the kernels for the row; the registers die with the warp
EndRow ==
    /\ Running /\ pc = "end"
    /\ c_nnz' = IF use_val THEN c_nnz ELSE [c_nnz EXCEPT ![row] = nnz]
    /\ IF row + 1 < num_rows
       THEN /\ row' = row + 1
            /\ phase' = phase
       ELSE /\ row' = 0
            /\ phase' = IF use_val THEN "done" ELSE "scan"
    /\ pc' = "start"
    /\ reg' = [l \in Lanes |-> IdleReg]
    /\ max_num_rows' = 0
    /\ min_col' = sentinel
    /\ c_val' = 0
    /\ UNCHANGED <<not_spgemm, inputs, shared, scratch, c_row_ptrs, nnz, c_nz, c_cols,
                   c_vals, c_written, iters>>

RECURSIVE PrefixSum(_, _)
\* the sum of the first r entries of f
PrefixSum(f, r) == IF r = 0 THEN 0 ELSE PrefixSum(f, r - 1) + f[r - 1]

\* between the passes: row_ptrs of C are the exclusive prefix sum of the
\* counts, and C's arrays are allocated with row_ptrs[num_rows] entries
Scan ==
    /\ phase = "scan"
    /\ c_row_ptrs' = [r \in 0 .. num_rows |-> PrefixSum(c_nnz, r)]
    /\ c_cols' = [p \in 0 .. PrefixSum(c_nnz, num_rows) - 1 |-> 0]
    /\ c_vals' = [p \in 0 .. PrefixSum(c_nnz, num_rows) - 1 |-> 0]
    /\ phase' = "kernel"
    /\ UNCHANGED <<not_spgemm, inputs, shared, scratch, c_nnz, row, pc, max_num_rows, reg,
                   min_col, nnz, c_nz, c_val, c_written, iters>>

(***************************************************************************)
(* The heaps of the medium and large merge.  A heap state holds the tops   *)
(* (registers), the shared-memory level and the global-memory heap.        *)
(***************************************************************************)
\* swap(a, b) on entries i and j of an array
swap(f, i, j) == [f EXCEPT ![i] = f[j], ![j] = f[i]]

\* gl_cols = tmp, gl_idxs = tmp + a_size, gl_ends = tmp + 2 * a_size and
\* gl_vals = tmpval, for tmp + 3 * a_begin and tmpval + a_begin
GlOf(t, tv) ==
    [cols |-> [i \in 0 .. a_size - 1 |-> t[3 * a_begin + i]],
     idxs |-> [i \in 0 .. a_size - 1 |-> t[3 * a_begin + a_size + i]],
     ends |-> [i \in 0 .. a_size - 1 |-> t[3 * a_begin + 2 * a_size + i]],
     vals |-> [i \in 0 .. a_size - 1 |-> tv[a_begin + i]]]

\* scratch arrays that start at tmp + a_begin
TmpOfNear(gl) ==
    [p \in DOMAIN tmp |->
        LET o == p - a_begin
        IN  IF o < 0 \/ o >= 3 * a_size THEN tmp[p]
            ELSE IF o < a_size THEN gl.cols[o]
            ELSE IF o < 2 * a_size THEN gl.idxs[o - a_size]
            ELSE gl.ends[o - 2 * a_size]]

TmpOf(gl) ==
    [p \in DOMAIN tmp |->
        LET o == p - 3 * a_begin
        IN  IF o < 0 \/ o >= 3 * a_size THEN tmp[p]
            ELSE IF o < a_size THEN gl.cols[o]
            ELSE IF o < 2 * a_size THEN gl.idxs[o - a_size]
            ELSE gl.ends[o - 2 * a_size]]

TmpvalOf(gl) ==
    [p \in DOMAIN tmpval |->
        IF use_val /\ p >= a_begin /\ p < a_begin + a_size
        THEN gl.vals[p - a_begin] ELSE tmpval[p]]

HeapState ==
    [reg |-> reg, sh_cols |-> sh_cols, sh_idxs |-> sh_idxs,
     sh_ends |-> sh_ends, sh_vals |-> sh_vals, gl |-> GlOf(tmp, tmpval)]

SetHeap(hs) ==
    /\ reg' = hs.reg
    /\ sh_cols' = hs.sh_cols
    /\ sh_idxs' = hs.sh_idxs
    /\ sh_ends' = hs.sh_ends
    /\ sh_vals' = hs.sh_vals
    /\ tmp' = TmpOf(hs.gl)
    /\ tmpval' = TmpvalOf(hs.gl)

\* the swaps between a lane's registers and a shared-memory entry
SwapRegSh(hs, l, sh_idx) ==
    [hs EXCEPT
       !.reg[l].b_col = hs.sh_cols[sh_idx],
       !.reg[l].b_idx = hs.sh_idxs[sh_idx],
       !.reg[l].b_end = hs.sh_ends[sh_idx],
       !.reg[l].a_val = IF use_val THEN hs.sh_vals[sh_idx] ELSE @,
       !.sh_cols[sh_idx] = hs.reg[l].b_col,
       !.sh_idxs[sh_idx] = hs.reg[l].b_idx,
       !.sh_ends[sh_idx] = hs.reg[l].b_end,
       !.sh_vals[sh_idx] = IF use_val THEN hs.reg[l].a_val ELSE @]

\* the swaps between a shared-memory entry and a global-memory entry
SwapShGl(hs, sh_idx, g) ==
    [hs EXCEPT
       !.sh_cols[sh_idx] = hs.gl.cols[g],
       !.sh_idxs[sh_idx] = hs.gl.idxs[g],
       !.sh_ends[sh_idx] = hs.gl.ends[g],
       !.sh_vals[sh_idx] = IF use_val THEN hs.gl.vals[g] ELSE @,
       !.gl.cols[g] = hs.sh_cols[sh_idx],
       !.gl.idxs[g] = hs.sh_idxs[sh_idx],
       !.gl.ends[g] = hs.sh_ends[sh_idx],
       !.gl.vals[g] = IF use_val THEN hs.sh_vals[sh_idx] ELSE @]

\* the swaps between two global-memory entries
SwapGl(gl, i, j) ==
    [cols |-> swap(gl.cols, i, j),
     idxs |-> swap(gl.idxs, i, j),
     ends |-> swap(gl.ends, i, j),
     vals |-> IF use_val THEN swap(gl.vals, i, j) ELSE gl.vals]

Children == 0 .. spgemm_child_count - 1

\* reduce(warp, b_col, min_op)
WarpMinCol(r) == SetMin({r[l].b_col : l \in Lanes})

\* "find all minimal heap elements" to step_cb: the lanes' products and
\* their sum (or the single product) as lane 0 holds it
HeapMinMask == {l \in Lanes : reg[l].b_col = min_col}

HeapReadsPastEnd == \E l \in HeapMinMask : reg[l].b_idx \notin DOMAIN b_vals

HeapProduct(l, g) ==
    IF reg[l].b_col = min_col /\ use_val
    THEN reg[l].a_val * b_vals_at(reg[l].b_idx, g) ELSE 0

\* a merge that keeps only the first of the tied products
HeapCurValFirst(g) == HeapProduct(SetMin(HeapMinMask), g)

HeapCurVal(g) ==
    IF Cardinality(HeapMinMask) = 1
    THEN HeapProduct(SetMin(HeapMinMask), g)
    ELSE SetSum([l \in Lanes |-> HeapProduct(l, g)], Lanes)

\* an update of the heap in which the tops stay where they are in their rows
HeapAdvanceCol(hs) ==
    [hs EXCEPT !.reg = [l \in Lanes |->
        IF hs.reg[l].b_col = min_col
        THEN [hs.reg[l] EXCEPT
                !.b_col = checked_load(b_cols, hs.reg[l].b_idx + 1,
                                       hs.reg[l].b_end, sentinel)]
        ELSE hs.reg[l]]]

\* "update the heap": the minimal tops advance in their rows of B
HeapAdvance(hs) ==
    [hs EXCEPT !.reg = [l \in Lanes |->
        IF hs.reg[l].b_col = min_col
        THEN [hs.reg[l] EXCEPT
                !.b_idx = @ + 1,
                !.b_col = checked_load(b_cols, hs.reg[l].b_idx + 1,
                                       hs.reg[l].b_end, sentinel)]
        ELSE hs.reg[l]]]

(***************************************************************************)
(* spgemm_multiway_merge_medium                                            *)
(***************************************************************************)
\* index for shared-memory heap
heap_idx(thread, child) == (thread + warp_base) * spgemm_child_count + child

\* the heap entry of the a_idx-th entry of the row of A; skipped a_cols
\* result in sentinel b_cols
MediumEntry(a_idx) ==
    LET a_new_col == checked_load(a_cols_row, a_idx, a_size, sentinel)
        skip == a_new_col = sentinel
        b_new_idx == IF skip THEN 0 ELSE b_row_ptrs[a_new_col]
        b_new_end == IF skip THEN 0 ELSE b_row_ptrs[a_new_col + 1]
    IN  [b_col |-> checked_load(b_cols, b_new_idx, b_new_end, sentinel),
         b_idx |-> b_new_idx,
         b_end |-> b_new_end,
         a_val |-> IF a_idx < a_size /\ use_val THEN a_vals_row[a_idx] ELSE 0,
         b_val |-> 0,
         subwarp_left |-> 0]

\* replace_if on all fields, for lane l and child i
MediumReplace(hs, l, i) ==
    LET new == MediumEntry((i + 1) * warp_size + l)
        cur == hs.reg[l]
        better == new.b_col < cur.b_col
        stored == IF better THEN cur ELSE new
        sh_idx == heap_idx(l, i)
    IN  [hs EXCEPT
           !.reg[l] = IF better THEN new ELSE cur,
           !.sh_cols[sh_idx] = stored.b_col,
           !.sh_idxs[sh_idx] = stored.b_idx,
           !.sh_ends[sh_idx] = stored.b_end,
           !.sh_vals[sh_idx] = IF use_val THEN stored.a_val ELSE @]

RECURSIVE MediumBuild(_, _)
\* "build heap" for the lanes from l on
MediumBuild(hs, n) ==
    IF n = warp_size * spgemm_child_count THEN hs
    ELSE MediumBuild(MediumReplace(hs, n % warp_size, n \div warp_size), n + 1)

MediumStart ==
    /\ Running /\ pc = "start" /\ a_size > 1
    /\ spgemm_multiway_merge_dispatch.tier = "medium"
    /\ LET loaded == [HeapState EXCEPT
                        !.reg = [l \in Lanes |-> MediumEntry(l)]]
           hs == MediumBuild(loaded, 0)
       IN  /\ SetHeap(hs)
           /\ min_col' = WarpMinCol(hs.reg)
    /\ SetCb(StartCb)
    /\ pc' = "medium"
    /\ iters' = 0
    /\ UNCHANGED <<not_spgemm, inputs, result, phase, row, max_num_rows>>

\* the callback of forall_bits for the top of lane thread
MediumFix(hs, thread) ==
    LET b_new_col == [c \in Children |-> hs.sh_cols[heap_idx(thread, c)]]
        local_min_col == SetMin({b_new_col[c] : c \in Children})
        local_min_thread ==
            SetMin({c \in Children : b_new_col[c] = local_min_col})
    IN  IF local_min_col < hs.reg[thread].b_col
        THEN SwapRegSh(hs, thread, heap_idx(thread, local_min_thread))
        ELSE hs

RECURSIVE MediumFixAll(_, _)
MediumFixAll(hs, mask) ==
    IF mask = {} THEN hs
    ELSE MediumFixAll(MediumFix(hs, SetMin(mask)), mask \ {SetMin(mask)})

\* the end of an iteration of the medium and the large loop:
\* "call finish row callback if we are done"
HeapFinish(hs, cb, tier) ==
    LET new_min_col == WarpMinCol(hs.reg)
    IN  /\ SetHeap(hs)
        /\ SetCb(IF new_min_col > min_col THEN col_cb(cb, min_col) ELSE cb)
        /\ min_col' = new_min_col
        /\ pc' = IF new_min_col < sentinel THEN tier ELSE "end"

MediumStep ==
    /\ pc = "medium"
    /\ \E g \in IF HeapReadsPastEnd THEN Garbage ELSE {0} :
         HeapFinish(MediumFixAll(HeapAdvance(HeapState), HeapMinMask),
                    step_cb(CbState, HeapCurVal(g)), "medium")
    /\ iters' = iters + 1
    /\ UNCHANGED <<not_spgemm, inputs, result, phase, row, max_num_rows>>

(***************************************************************************)
(* spgemm_multiway_merge_large                                             *)
(***************************************************************************)
\* child index for shared-memory heap
sh_child_idx(thread, child) ==
    (thread + warp_base) * spgemm_child_count + child

\* translates a shared-memory heap index into a global-memory heap index
sh_to_gl(idx) == idx - warp_base * spgemm_child_count + warp_size

\* child index for global-memory heap
child_idx(pos, child) == pos * spgemm_child_count + warp_size + child

RECURSIVE sift_loop(_, _, _)
\* the while loop of sift_down for the node i and the column it came with
sift_loop(gl, i, parent_col) ==
    IF child_idx(i, 0) >= a_size THEN gl
    ELSE LET child_col == [c \in Children |->
                 checked_load(gl.cols, child_idx(i, c), a_size, sentinel)]
             sift_min_col == SetMin({child_col[c] : c \in Children})
             min_child ==
                 SetMin({c \in Children : child_col[c] = sift_min_col})
         IN  IF sift_min_col >= parent_col THEN gl
             ELSE sift_loop(SwapGl(gl, i, child_idx(i, min_child)),
                            child_idx(i, min_child), parent_col)

\* restore the global-memory heap property from node i downwards
sift_down(gl, i) == sift_loop(gl, i, gl.cols[i])

\* "fill heap storage"
LargeFill ==
    [cols |-> [i \in 0 .. a_size - 1 |->
                  checked_load(b_cols, b_row_ptrs[a_cols_row[i]],
                               b_row_ptrs[a_cols_row[i] + 1], sentinel)],
     idxs |-> [i \in 0 .. a_size - 1 |-> b_row_ptrs[a_cols_row[i]]],
     ends |-> [i \in 0 .. a_size - 1 |-> b_row_ptrs[a_cols_row[i] + 1]],
     vals |-> [i \in 0 .. a_size - 1 |->
                  IF use_val THEN a_vals_row[i] ELSE tmpval[a_begin + i]]]

last_parent == (a_size - 1 - warp_size) \div spgemm_child_count

RECURSIVE LargeBuild(_, _)
\* "build heap": the subwarps run their rounds in lock step, subwarp s
\* handling the node last_parent - s - round * subwarp_count; the nodes of a
\* round have disjoint subtrees, so the rounds are the nodes in descending
\* order
LargeBuild(gl, i) ==
    IF i < 0 THEN gl ELSE LargeBuild(sift_down(gl, i), i - 1)

\* "load top for each sub-heap into registers" and "load next level of
\* heap into shared memory"
LargeLoad(hs) ==
    LET level == {i + warp_base * spgemm_child_count :
                     i \in 0 .. spgemm_child_count * warp_size - 1}
        from(sh_idx) == sh_idx - warp_base * spgemm_child_count + warp_size
    IN  [hs EXCEPT
           !.reg = [l \in Lanes |->
                       [b_col |-> hs.gl.cols[l], b_idx |-> hs.gl.idxs[l],
                        b_end |-> hs.gl.ends[l],
                        a_val |-> IF use_val THEN hs.gl.vals[l] ELSE 0,
                        b_val |-> 0, subwarp_left |-> 0]],
           !.sh_cols = [x \in DOMAIN @ |->
                           IF x \in level THEN hs.gl.cols[from(x)] ELSE @[x]],
           !.sh_idxs = [x \in DOMAIN @ |->
                           IF x \in level THEN hs.gl.idxs[from(x)] ELSE @[x]],
           !.sh_ends = [x \in DOMAIN @ |->
                           IF x \in level THEN hs.gl.ends[from(x)] ELSE @[x]],
           !.sh_vals = [x \in DOMAIN @ |->
                           IF use_val /\ x \in level
                           THEN hs.gl.vals[from(x)] ELSE @[x]]]

LargeStart ==
    /\ Running /\ pc = "start" /\ a_size > 1
    /\ spgemm_multiway_merge_dispatch.tier = "large"
    /\ LET built == LargeBuild(LargeFill, last_parent)
           hs == LargeLoad([HeapState EXCEPT !.gl = built])
       IN  /\ SetHeap(hs)
           /\ min_col' = WarpMinCol(hs.reg)
    /\ SetCb(StartCb)
    /\ pc' = "large"
    /\ iters' = 0
    /\ UNCHANGED <<not_spgemm, inputs, result, phase, row, max_num_rows>>

\* "update global memory heap with shared memory heap" for the entry sh_idx
LargeFixGlobal(hs, sh_idx) ==
    LET node == sh_to_gl(sh_idx)
        cur_col == [c \in Children |->
            checked_load(hs.gl.cols, child_idx(node, c), a_size, sentinel)]
        gl_min_col == SetMin({cur_col[c] : c \in Children})
        min_child == SetMin({c \in Children : cur_col[c] = gl_min_col})
        new_heap_idx == child_idx(node, min_child)
    IN  IF child_idx(node, 0) < a_size /\ gl_min_col < hs.sh_cols[sh_idx]
        THEN [SwapShGl(hs, sh_idx, new_heap_idx) EXCEPT
                !.gl = sift_down(@, new_heap_idx)]
        ELSE hs

\* the callback of forall_bits for the sub-heap heap
LargeFix(hs, heap) ==
    LET child_col == [c \in Children |-> hs.sh_cols[sh_child_idx(heap, c)]]
        heap_top_col == hs.reg[heap].b_col
        min_child_col == SetMin({child_col[c] : c \in Children})
        min_child == SetMin({c \in Children : child_col[c] = min_child_col})
        sh_idx == sh_child_idx(heap, min_child)
    IN  IF min_child_col < heap_top_col
        THEN LargeFixGlobal(SwapRegSh(hs, heap, sh_idx), sh_idx)
        ELSE hs

RECURSIVE LargeFixAll(_, _)
LargeFixAll(hs, mask) ==
    IF mask = {} THEN hs
    ELSE LargeFixAll(LargeFix(hs, SetMin(mask)), mask \ {SetMin(mask)})

LargeStep ==
    /\ pc = "large"
    /\ \E g \in IF HeapReadsPastEnd THEN Garbage ELSE {0} :
         HeapFinish(LargeFixAll(HeapAdvance(HeapState), HeapMinMask),
                    step_cb(CbState, HeapCurVal(g)), "large")
    /\ iters' = iters + 1
    /\ UNCHANGED <<not_spgemm, inputs, result, phase, row, max_num_rows>>

(***************************************************************************)
(* "build heap" of spgemm_multiway_merge_large, subwarp by subwarp         *)
(***************************************************************************)
subwarp_count == warp_size \div spgemm_child_count

Subwarps == 0 .. subwarp_count - 1

\* no heap is being built
BuildIdle == build = << >>

\* the nodes on the path from a root of the heap to node d, d included
RECURSIVE Ancestors(_)
Ancestors(d) ==
    IF d < warp_size THEN {d}
    ELSE {d} \cup Ancestors((d - warp_size) \div spgemm_child_count)

\* the inputs of a heap build: B has k rows that repeat a base of four rows
\* and the only row of A with entries references every row of B
BuildInit ==
    /\ warp_size \in WarpSizes
    /\ \E base \in BaseRows \X RowShapes :
         \E k \in warp_size * (spgemm_child_count + 1) + 1 .. MaxK :
           LET rows == [r \in 0 .. k - 1 |->
                           IF r % 4 = 3 THEN base[2] ELSE base[1][(r % 4) + 1]]
           IN  /\ a_row_ptrs = [r \in 0 .. 2 |-> IF r = 0 THEN 0 ELSE k]
               /\ a_cols = [j \in 0 .. k - 1 |-> j]
               /\ a_vals = [j \in 0 .. k - 1 |-> j + 1]
               /\ b_row_ptrs = RowPtrsOf(rows, k)
               /\ b_cols = ColsOf(rows, k)
               /\ b_vals = [p \in DOMAIN ColsOf(rows, k) |-> p + 1]
               /\ tmp = [i \in 0 .. 3 * k - 1 |-> 0]
               /\ tmpval = [i \in 0 .. k - 1 |-> 0]
    /\ phase = "count"
    /\ row = 0
    /\ pc = "start"
    /\ max_num_rows = 0
    /\ reg = [l \in Lanes |-> IdleReg]
    /\ sh_cols = [i \in 0 .. heap_size * warps_per_block - 1 |-> 0]
    /\ sh_idxs = [i \in 0 .. heap_size * warps_per_block - 1 |-> 0]
    /\ sh_ends = [i \in 0 .. heap_size * warps_per_block - 1 |-> 0]
    /\ sh_vals = [i \in 0 .. heap_size * warps_per_block - 1 |-> 0]
    /\ min_col = sentinel
    /\ nnz = 0
    /\ c_nz = 0
    /\ c_val = 0
    /\ c_nnz = [r \in 0 .. 1 |-> 0]
    /\ c_row_ptrs = [r \in 0 .. 2 |-> 0]
    /\ c_cols = << >>
    /\ c_vals = << >>
    /\ c_written = {}
    /\ iters = 0
    /\ build = << >>

\* "fill heap storage"; every subwarp reaches its build loop
LargeFillHeap ==
    /\ Running /\ pc = "start" /\ a_size > 1
    /\ spgemm_multiway_merge_dispatch.tier = "large"
    /\ tmp' = TmpOf(LargeFill)
    /\ tmpval' = TmpvalOf(LargeFill)
    /\ build' = [s \in Subwarps |->
                 [i |-> last_parent - s, sifting |-> FALSE, pos |-> 0,
                  parent_col |-> 0]]
    /\ pc' = "build"
    /\ UNCHANGED <<not_build, inputs, shared, result, phase, row,
                   max_num_rows, reg, min_col, nnz, c_nz, c_val, c_cols,
                   c_vals, c_written, iters>>

\* subwarp s passes the subwarp.sync() of its loop and enters sift_down(i)
sift_down_enter(s) ==
    /\ pc = "build" /\ ~build[s].sifting /\ build[s].i >= 0
    /\ build' = [build EXCEPT ![s] =
                 [@ EXCEPT !.sifting = TRUE, !.pos = build[s].i,
                           !.parent_col = GlOf(tmp, tmpval).cols[build[s].i]]]
    /\ UNCHANGED <<not_build, spgemm_vars>>

\* the minimum child of node i as the subwarp's reduction finds it
sift_min_child(gl, i) ==
    LET child_col == [c \in Children |->
            checked_load(gl.cols, child_idx(i, c), a_size, sentinel)]
        sift_min_col == SetMin({child_col[c] : c \in Children})
    IN  [col |-> sift_min_col,
         child |-> child_idx(i, SetMin({c \in Children :
                                          child_col[c] = sift_min_col}))]

\* whether the next iteration of subwarp s swaps the minimum child up
sift_swaps(s) ==
    /\ build[s].sifting
    /\ child_idx(build[s].pos, 0) < a_size
    /\ sift_min_child(GlOf(tmp, tmpval), build[s].pos).col < build[s].parent_col

\* one iteration of the while loop of sift_down in subwarp s, or its end
sift_down_iterate(s) ==
    /\ pc = "build" /\ build[s].sifting
    /\ LET gl == GlOf(tmp, tmpval)
           child == sift_min_child(gl, build[s].pos).child
       IN  IF sift_swaps(s)
           THEN /\ tmp' = TmpOf(SwapGl(gl, build[s].pos, child))
                /\ tmpval' = TmpvalOf(SwapGl(gl, build[s].pos, child))
                /\ build' = [build EXCEPT ![s].pos = child]
           ELSE /\ build' = [build EXCEPT ![s].sifting = FALSE,
                                    ![s].i = @ - subwarp_count]
                /\ UNCHANGED <<tmp, tmpval>>
    /\ UNCHANGED <<not_build, inputs, shared, result, phase, row, pc,
                   max_num_rows, reg, min_col, nnz, c_nz, c_val, c_cols,
                   c_vals, c_written, iters>>

\* warp.sync() after the loops, "load top for each sub-heap into registers"
\* and "load next level of heap into shared memory"
LargeLoadHeap ==
    /\ pc = "build"
    /\ \A s \in Subwarps : ~build[s].sifting /\ build[s].i < 0
    /\ LET hs == LargeLoad(HeapState)
       IN  /\ SetHeap(hs)
           /\ min_col' = WarpMinCol(hs.reg)
    /\ SetCb(StartCb)
    /\ build' = << >>
    /\ pc' = "large"
    /\ iters' = 0
    /\ UNCHANGED <<not_build, inputs, result, phase, row,
                   max_num_rows>>

\* the heap entries the next step of subwarp s reads and writes
SiftReads(s) ==
    IF build[s].sifting
    THEN {child_idx(build[s].pos, c) : c \in Children} \cap (0 .. a_size - 1)
    ELSE IF build[s].i >= 0 THEN {build[s].i} ELSE {}

SiftWrites(s) ==
    IF sift_swaps(s)
    THEN {build[s].pos, sift_min_child(GlOf(tmp, tmpval), build[s].pos).child}
    ELSE {}

\* C23: while the subwarps build the heap of the large merge, no heap entry
\* that one subwarp writes is read or written by another subwarp at the same
\* time, and no node is sifted while one of its descendants is still being
\* sifted by another subwarp.
BuildRaceFree ==
    pc = "build" =>
        \A s, t \in Subwarps :
            s /= t =>
                /\ SiftWrites(s) \cap (SiftReads(t) \cup SiftWrites(t)) = {}
                /\ (build[s].sifting /\ build[t].sifting) =>
                       build[s].i \notin Ancestors(build[t].i)

(***************************************************************************)
(* Dense::read, Dense::write, Dense::scale and Dense::add_scaled           *)
(***************************************************************************)
\* the sizes, as (rows, cols), and the values of the matrices
DenseDims == {1, 2} \X {1, 2}
DenseValues == {0, 1, 2}

Positions(size) == (0 .. size[1] - 1) \X (0 .. size[2] - 1)

DenseMatrices ==
    UNION {{[size |-> sz, values |-> v] :
               v \in [Positions(sz) -> DenseValues]} : sz \in DenseDims}

\* the position of (row, col) in the row-major order of a matrix
RowMajor(size, pos) == pos[1] * size[2] + pos[2]

Reverse(seq) == [k \in 1 .. Len(seq) |-> seq[Len(seq) + 1 - k]]

\* the entries at the positions S with the values v, in row-major order
SortedNonzeros(size, S, v) ==
    [k \in 1 .. Cardinality(S) |->
        LET pos == CHOOSE x \in S :
                       Cardinality({q \in S : RowMajor(size, q)
                                                 < RowMajor(size, x)}) = k - 1
        IN  [row |-> pos[1], column |-> pos[2], value |-> v[pos]]]

\* matrix_data: entries at distinct positions inside the size, listed in
\* row-major order or in the opposite order; the values go round
\* DenseValues from a first value on
MatrixDatas ==
    UNION {UNION {{[size |-> sz, nonzeros |-> SortedNonzeros(sz, S, v)],
                   [size |-> sz,
                    nonzeros |-> Reverse(SortedNonzeros(sz, S, v))]} :
                     v \in {[pos \in S |-> (first + RowMajor(sz, pos))
                                               % Cardinality(DenseValues)] :
                               first \in DenseValues}} :
              <<sz, S>> \in {x \in DenseDims \X SUBSET ({0, 1} \X {0, 1}) :
                                x[2] \subseteq Positions(x[1])}}

NoData == [size |-> <<0, 0>>, nonzeros |-> << >>]

NoCall ==
    [op |-> "none", error |-> "none", alpha |-> <<0, 0>>, b |-> <<0, 0>>]

RECURSIVE read_loop(_, _, _)
\* the two loops of read_impl from the position pos on, in row-major order
read_loop(data, pos, ind) ==
    IF pos = data.size[1] * data.size[2] THEN << >>
    ELSE LET hit == /\ ind < Len(data.nonzeros)
                    /\ data.nonzeros[ind + 1].row = pos \div data.size[2]
                    /\ data.nonzeros[ind + 1].column = pos % data.size[2]
         IN  <<IF hit THEN data.nonzeros[ind + 1].value ELSE 0>>
                 \o read_loop(data, pos + 1, IF hit THEN ind + 1 ELSE ind)

read_impl(data) ==
    [size |-> data.size,
     values |-> [pos \in Positions(data.size) |->
                    read_loop(data, 0, 0)[RowMajor(data.size, pos) + 1]]]

RECURSIVE write_loop(_, _)
\* the two loops of write_impl from the position pos on
write_loop(mtx, pos) ==
    IF pos = mtx.size[1] * mtx.size[2] THEN << >>
    ELSE LET r == pos \div mtx.size[2]
             c == pos % mtx.size[2]
         IN  (IF mtx.values[<<r, c>>] # 0
              THEN <<[row |-> r, column |-> c,
                      value |-> mtx.values[<<r, c>>]]>>
              ELSE << >>) \o write_loop(mtx, pos + 1)

\* a write that lists the entries of every position
write_impl_all(mtx) ==
    [size |-> mtx.size,
     nonzeros |-> SortedNonzeros(mtx.size, Positions(mtx.size), mtx.values)]

write_impl(mtx) == [size |-> mtx.size, nonzeros |-> write_loop(mtx, 0)]

\* GKO_ASSERT_EQUAL_ROWS, GKO_ASSERT_EQUAL_COLS and
\* GKO_ASSERT_EQUAL_DIMENSIONS on the sizes of their operands: whether the
\* assertion passes
GKO_ASSERT_EQUAL_ROWS(op1, op2) == op1[1] = op2[1]
GKO_ASSERT_EQUAL_COLS(op1, op2) == op1[2] = op2[2]
GKO_ASSERT_EQUAL_DIMENSIONS(op1, op2) == op1 = op2

\* assertions on alpha that compare only the rows
alpha_asserts_rows(size, alpha) == GKO_ASSERT_EQUAL_ROWS(alpha, <<1, 1>>)

\* the assertions on alpha of scale_impl and add_scaled_impl
alpha_asserts(size, alpha) ==
    /\ GKO_ASSERT_EQUAL_ROWS(alpha, <<1, 1>>)
    /\ alpha[2] # 1 => GKO_ASSERT_EQUAL_COLS(size, alpha)

\* the operands of scale and add_scaled: alpha differs by column
AlphaOf(size) ==
    [size |-> size, values |-> [pos \in Positions(size) |-> 2 + pos[2]]]

OperandOf(size) ==
    [size |-> size,
     values |-> [pos \in Positions(size) |-> 1 + pos[1] + 2 * pos[2]]]

\* the kernels dense::scale and dense::add_scaled
dense_scale(alpha, x) ==
    [x EXCEPT !.values = [pos \in DOMAIN @ |->
        alpha.values[<<0, IF alpha.size[2] = 1 THEN 0 ELSE pos[2]>>] * @[pos]]]

dense_add_scaled(alpha, b, x) ==
    [x EXCEPT !.values = [pos \in DOMAIN @ |->
        @[pos] + alpha.values[<<0, IF alpha.size[2] = 1 THEN 0 ELSE pos[2]>>]
                     * b.values[pos]]]

DenseIdle ==
    /\ dense_mtx = [size |-> <<0, 0>>, values |-> << >>]
    /\ dense_in = NoData
    /\ dense_data = NoData
    /\ dense_call = NoCall
    /\ dense_calls = MaxCalls

DenseInit ==
    /\ dense_mtx \in DenseMatrices
    /\ dense_in = NoData
    /\ dense_data = NoData
    /\ dense_call = NoCall
    /\ dense_calls = 0

\* Dense::read(data), for the data of the model or the data last written
Dense_read ==
    /\ dense_calls < MaxCalls
    /\ \E data \in MatrixDatas \cup ({dense_data} \ {NoData}) :
          /\ dense_mtx' = read_impl(data)
          /\ dense_in' = data
    /\ dense_call' = [NoCall EXCEPT !.op = "read"]
    /\ dense_calls' = dense_calls + 1
    /\ UNCHANGED <<not_rw, dense_data>>

\* Dense::write(data)
Dense_write ==
    /\ dense_calls < MaxCalls
    /\ dense_data' = write_impl(dense_mtx)
    /\ dense_call' = [NoCall EXCEPT !.op = "write"]
    /\ dense_calls' = dense_calls + 1
    /\ UNCHANGED <<not_rw, dense_mtx, dense_in>>

\* Dense::scale(alpha): scale_impl
Dense_scale ==
    /\ dense_calls < MaxCalls
    /\ \E alpha \in DenseDims :
          LET passes == alpha_asserts(dense_mtx.size, alpha)
          IN  /\ dense_mtx' = IF passes
                              THEN dense_scale(AlphaOf(alpha), dense_mtx)
                              ELSE dense_mtx
              /\ dense_call' =
                     [op |-> "scale",
                      error |-> IF passes THEN "none"
                                ELSE "DimensionMismatch",
                      alpha |-> alpha, b |-> <<0, 0>>]
    /\ dense_in' = NoData
    /\ dense_calls' = dense_calls + 1
    /\ UNCHANGED <<not_rw, dense_data>>

\* Dense::add_scaled(alpha, b): add_scaled_impl, for a Dense b
Dense_add_scaled ==
    /\ dense_calls < MaxCalls
    /\ \E alpha \in DenseDims, b \in DenseDims :
          LET passes == /\ alpha_asserts(dense_mtx.size, alpha)
                        /\ GKO_ASSERT_EQUAL_DIMENSIONS(dense_mtx.size, b)
          IN  /\ dense_mtx' =
                     IF passes
                     THEN dense_add_scaled(AlphaOf(alpha), OperandOf(b),
                                           dense_mtx)
                     ELSE dense_mtx
              /\ dense_call' =
                     [op |-> "add_scaled",
                      error |-> IF passes THEN "none"
                                ELSE "DimensionMismatch",
                      alpha |-> alpha, b |-> b]
    /\ dense_in' = NoData
    /\ dense_calls' = dense_calls + 1
    /\ UNCHANGED <<not_rw, dense_data>>

(***************************************************************************)
(* Claims on Dense::read, write, scale and add_scaled (SpecDense)          *)
(***************************************************************************)
\* the entries of a matrix_data lie inside its size, at pairwise distinct
\* positions, in row-major order
RowMajorData(data) ==
    /\ \A k \in DOMAIN data.nonzeros :
           <<data.nonzeros[k].row, data.nonzeros[k].column>>
               \in Positions(data.size)
    /\ \A k \in 1 .. Len(data.nonzeros) - 1 :
           RowMajor(data.size, <<data.nonzeros[k].row,
                                 data.nonzeros[k].column>>)
               < RowMajor(data.size, <<data.nonzeros[k + 1].row,
                                       data.nonzeros[k + 1].column>>)

\* the entries of a matrix_data with a value other than zero, in their order
RECURSIVE NonZeroEntries(_)
NonZeroEntries(seq) ==
    IF seq = << >> THEN << >>
    ELSE (IF Head(seq).value # 0 THEN <<Head(seq)>> ELSE << >>)
             \o NonZeroEntries(Tail(seq))

\* C29: for a matrix_data d with in-bounds, pairwise distinct positions in
\* row-major order, after read(d) the matrix holds every entry of d at its
\* (row, col) and zero elsewhere, and a following write returns exactly the
\* entries of d with a non-zero value, in row-major order; reading what
\* write returned for a matrix M reproduces every value of M.
ReadWriteRoundTrip ==
    /\ []((dense_in # NoData /\ RowMajorData(dense_in)) =>
            /\ dense_mtx.size = dense_in.size
            /\ \A pos \in Positions(dense_in.size) :
                   LET here == {k \in DOMAIN dense_in.nonzeros :
                                   <<dense_in.nonzeros[k].row,
                                     dense_in.nonzeros[k].column>> = pos}
                   IN  /\ here = {} => dense_mtx.values[pos] = 0
                       /\ \A k \in here :
                              dense_mtx.values[pos] = dense_in.nonzeros[k].value
            /\ dense_call.op = "write" =>
                   /\ dense_data.size = dense_in.size
                   /\ dense_data.nonzeros = NonZeroEntries(dense_in.nonzeros)
                   /\ RowMajorData(dense_data))
    /\ [][(dense_call.op = "write" /\ dense_call'.op = "read"
               /\ dense_in' = dense_data) => dense_mtx' = dense_mtx]_vars

\* a write has followed the read of a matrix_data that holds a zero and two
\* other values
ReadWriteRoundTripWitness ==
    /\ dense_call.op = "write"
    /\ RowMajorData(dense_in)
    /\ Len(dense_in.nonzeros) = 3
    /\ Len(dense_data.nonzeros) = 2

\* C30: scale accepts alpha exactly when alpha has one row and one column
\* or as many columns as the matrix, add_scaled when in addition b has the
\* dimensions of the matrix; every other call ends in a dimension mismatch
\* before a kernel has run, and the values of the matrix are unchanged.
DimensionChecks ==
    /\ [](dense_call.op \in {"scale", "add_scaled"} =>
            /\ dense_call.error \in {"none", "DimensionMismatch"}
            /\ dense_call.error = "none" <=>
                   /\ dense_call.alpha[1] = 1
                   /\ dense_call.alpha[2] \in {1, dense_mtx.size[2]}
                   /\ dense_call.op = "add_scaled" =>
                          dense_call.b = dense_mtx.size)
    /\ [][dense_call'.error = "DimensionMismatch" =>
              dense_mtx' = dense_mtx]_vars
    /\ [][(dense_call'.op \in {"scale", "add_scaled"}
               /\ dense_calls' = dense_calls + 1
               /\ dense_call'.error = "none"
               /\ \E pos \in DOMAIN dense_mtx.values :
                      dense_mtx.values[pos] # 0) =>
              dense_mtx' # dense_mtx]_vars

\* add_scaled has rejected a b of other dimensions with an alpha that has a
\* value for each column
DimensionChecksWitness ==
    /\ dense_call.op = "add_scaled"
    /\ dense_call.error = "DimensionMismatch"
    /\ dense_call.alpha = <<1, 2>>
    /\ dense_mtx.size = <<2, 2>>
    /\ dense_call.b = <<1, 2>>

(***************************************************************************)
(* The matrices as mathematics: the reference the kernels are held to      *)
(***************************************************************************)
RowEntries(ptrs, i) == ptrs[i] .. ptrs[i + 1] - 1

\* the columns stored in row r of B
BRowCols(r) == {b_cols[p] : p \in RowEntries(b_row_ptrs, r)}

\* Dense(B)[r][c]
DenseB(r, c) ==
    SetSum(b_vals, {p \in RowEntries(b_row_ptrs, r) : b_cols[p] = c})

\* the columns c that have a product A[i][k] * B[k][c]
ProductCols(i) ==
    UNION {BRowCols(a_cols[j]) : j \in RowEntries(a_row_ptrs, i)}

\* the entries of A's row i that have a product in column c
Contributors(i, c) ==
    {j \in RowEntries(a_row_ptrs, i) : c \in BRowCols(a_cols[j])}

\* (Dense(A) * Dense(B))[i][c]
DenseProduct(i, c) ==
    SetSum([j \in DOMAIN a_cols |-> a_vals[j] * DenseB(a_cols[j], c)],
           RowEntries(a_row_ptrs, i))

\* Dense(C)[i][c]
DenseC(i, c) ==
    SetSum(c_vals, {p \in RowEntries(c_row_ptrs, i) : c_cols[p] = c})

AllRows == 0 .. num_rows - 1

\* the rows the value pass has finished
RowsWritten ==
    IF phase = "done" THEN AllRows
    ELSE IF phase = "kernel" THEN 0 .. row - 1 ELSE {}

\* the rows the counting pass has finished
RowsCounted ==
    IF phase = "count" THEN 0 .. row - 1 ELSE AllRows

PositionsWritten(i) == {w[2] : w \in {x \in c_written : x[1] = i}}

RowSize(i) == a_row_ptrs[i + 1] - a_row_ptrs[i]

(***************************************************************************)
(* Claims on the SpGEMM kernels (checked under Spec)                       *)
(***************************************************************************)
\* a row of A with several entries that all reference empty rows of B, merged
\* by the short tier
AllEmptyShortRow(i) ==
    /\ RowSize(i) >= 2
    /\ RowSize(i) <= warp_size
    /\ ProductCols(i) = {}

\* C1: counting, taking the exclusive prefix sum of the counts as row
\* pointers and running the value pass gives a CSR matrix C over the columns
\* of B with Dense(C) = Dense(A) * Dense(B).
SpgemmEqualsDenseProduct ==
    phase = "done" =>
        /\ c_row_ptrs = [r \in 0 .. num_rows |-> PrefixSum(c_nnz, r)]
        /\ \A p \in DOMAIN c_cols : c_cols[p] \in ColumnsOfB
        /\ \A i \in AllRows, c \in ColumnsOfB : DenseC(i, c) = DenseProduct(i, c)

\* C2: the columns stored in row i of C and the count of row i are exactly
\* the columns that have a product, the union of the column sets of the
\* referenced rows of B; no other column is counted or stored.
NonZeroPattern ==
    /\ \A i \in RowsCounted : c_nnz[i] = Cardinality(ProductCols(i))
    /\ \A i \in RowsWritten :
           {c_cols[p] : p \in RowEntries(c_row_ptrs, i)} = ProductCols(i)

TieSum(i, c) ==
    SetSum([j \in DOMAIN a_cols |-> a_vals[j] * DenseB(a_cols[j], c)],
           Contributors(i, c))

LoadedEntry(i) ==
    LET a_col == a_cols_row[i]
    IN  [b_col |-> checked_load(b_cols, b_row_ptrs[a_col],
                                b_row_ptrs[a_col + 1], sentinel),
         b_idx |-> b_row_ptrs[a_col], b_end |-> b_row_ptrs[a_col + 1],
         a_val |-> IF use_val THEN a_vals_row[i] ELSE 0]

\* a slot that holds no entry of A
PaddingEntry == [b_col |-> sentinel, b_idx |-> 0, b_end |-> 0, a_val |-> 0]

\* the slots of a tier and what they hold: the first lane of every subwarp
\* (short), the registers and the shared-memory children (medium, large) and
\* the global-memory nodes below them (large)
SlotsOf(tier) ==
    LET of_reg == {[slot |-> <<"reg", l>>,
                    holds |-> [b_col |-> reg[l].b_col, b_idx |-> reg[l].b_idx,
                               b_end |-> reg[l].b_end,
                               a_val |-> reg[l].a_val]] : l \in Lanes}
        of_sh == {[slot |-> <<"sh", x>>,
                   holds |-> [b_col |-> sh_cols[x], b_idx |-> sh_idxs[x],
                              b_end |-> sh_ends[x],
                              a_val |-> IF use_val THEN sh_vals[x] ELSE 0]] :
                     x \in {heap_idx(l, c) : l \in Lanes, c \in Children}}
        gl == GlOf(tmp, tmpval)
        of_gl == {[slot |-> <<"gl", g>>,
                   holds |-> [b_col |-> gl.cols[g], b_idx |-> gl.idxs[g],
                              b_end |-> gl.ends[g],
                              a_val |-> IF use_val THEN gl.vals[g] ELSE 0]] :
                     g \in warp_size * (spgemm_child_count + 1) .. a_size - 1}
    IN  IF tier = "short"
        THEN {x \in of_reg : x.slot[2] % short_subwarp_size = 0}
        ELSE IF tier = "medium" THEN of_reg \cup of_sh
        ELSE of_reg \cup of_sh \cup of_gl

\* the slots of the tier the row is merged by
TierSlots == SlotsOf(pc)

\* the widths the short merge is instantiated with
DispatchWidths == {2, 4, 8, 16, 32} \cup {warp_size}

\* C21: a row of A with no entry writes nothing and a row with one entry
\* copies the scaled row of B (the count is its length), both without a
\* merge; a longer row runs the short merge with the smallest width that
\* holds it when a_size <= warp_size, the medium merge when a_size <=
\* warp_size * (child_count + 1) and the large merge otherwise; the tier
\* loads every entry of the row of A into exactly one slot.
TierSelection ==
    /\ pc \in {"short", "medium", "large"} => a_size >= 2
    /\ pc = "short" =>
           /\ a_size <= warp_size
           /\ max_num_rows = SetMin({m \in DispatchWidths : m >= a_size})
    /\ pc = "medium" =>
           /\ warp_size < a_size
           /\ a_size <= warp_size * (spgemm_child_count + 1)
    /\ pc = "large" => a_size > warp_size * (spgemm_child_count + 1)
    /\ (pc \in {"short", "medium", "large"} /\ iters = 0) =>
           LET padding == Cardinality(TierSlots) - a_size
           IN  /\ padding >= 0
               /\ \A e \in {x.holds : x \in TierSlots}
                              \cup {LoadedEntry(i) : i \in 0 .. a_size - 1} :
                      Cardinality({x \in TierSlots : x.holds = e})
                          = Cardinality({i \in 0 .. a_size - 1 :
                                            LoadedEntry(i) = e})
                                + IF e = PaddingEntry THEN padding ELSE 0
    /\ (Running /\ pc = "end" /\ a_size = 0) =>
           /\ nnz = 0
           /\ PositionsWritten(row) = {}
    /\ (Running /\ pc = "end" /\ a_size = 1) =>
           LET b_begin == b_row_ptrs[a_cols[a_begin]]
               b_size == b_row_ptrs[a_cols[a_begin] + 1] - b_begin
           IN  IF use_val
               THEN /\ PositionsWritten(row)
                           = {c_row_ptrs[row] + i : i \in 0 .. b_size - 1}
                    /\ \A i \in 0 .. b_size - 1 :
                           /\ c_cols[c_row_ptrs[row] + i] = b_cols[b_begin + i]
                           /\ c_vals[c_row_ptrs[row] + i]
                                  = a_vals[a_begin] * b_vals[b_begin + i]
               ELSE nnz = b_size

\* the value pass has loaded the heap of a row of the large tier, after a
\* row of two entries
TierSelectionWitness ==
    /\ phase = "kernel" /\ pc = "large" /\ iters = 0
    /\ row = 1 /\ RowSize(0) = 2
    /\ \E l \in Lanes : reg[l].b_col < sentinel

\* the columns of the entries of B the slots of the heap have not consumed
Unconsumed ==
    UNION {{b_cols[p] : p \in x.holds.b_idx .. x.holds.b_end - 1} :
              x \in TierSlots}

\* the nodes of the global-memory heap below the shared-memory level
GlobalNodes == warp_size * (spgemm_child_count + 1) .. a_size - 1

compute_spgemm_work(i) ==
    SetSum([nz \in DOMAIN a_cols |->
               b_row_ptrs[a_cols[nz] + 1] - b_row_ptrs[a_cols[nz]]],
           RowEntries(a_row_ptrs, i))

\* the entries of the referenced rows of B the slots of a tier still hold
RemainingOf(tier) ==
    Cardinality(UNION {{<<x.slot, p>> :
                           p \in x.holds.b_idx .. x.holds.b_end - 1} :
                          x \in SlotsOf(tier)})

\* the minimum column of the iteration that runs next
IterationMin == IF pc = "short" THEN ShortMinCol(0) ELSE min_col

\* C24: every iteration of the three merge loops with a minimum below the
\* sentinel consumes at least one entry of a referenced row of B, the loop
\* ends when no entry is left, and the number of iterations of a row is at
\* most the total number of entries of the referenced rows of B plus one.
MergeTermination ==
    [][\A tier \in {"short", "medium", "large"} :
           (pc = tier /\ iters' = iters + 1) =>
               /\ IterationMin < sentinel =>
                      RemainingOf(tier)' < RemainingOf(tier)
               /\ iters' <= compute_spgemm_work(row) + 1
               /\ pc' \in {tier, "end"}
               /\ pc' = "end" <=> RemainingOf(tier)' = 0]_vars

\* the large merge of a row has ended after fewer iterations than the
\* referenced rows of B have entries
MergeTerminationWitness ==
    /\ pc = "end" /\ a_size > warp_size * (spgemm_child_count + 1)
    /\ iters >= 3 /\ iters < compute_spgemm_work(row)

\* the reads of b_vals[b_idx] of the next iteration of the medium and the
\* large loop, with the end of the row of B the entry belongs to
HeapValueReads ==
    IF pc \in {"medium", "large"} /\ use_val
    THEN {[b_idx |-> reg[l].b_idx, b_end |-> reg[l].b_end] :
             l \in HeapMinMask}
    ELSE {}

\* the reads of b_vals[b_idx] of "advance elements" in the short loop
ShortValueReads ==
    IF pc = "short" /\ use_val
    THEN {[b_idx |-> reg[l].b_idx + 1, b_end |-> reg[l].b_end] :
             l \in {m \in Lanes :
                       /\ ShortSubIsMin(m)
                       /\ reg[m].b_idx + 1 < reg[m].b_end
                       /\ \/ short_subwarp_size = 1
                          \/ reg[m].subwarp_left - 1 = 0}}
    ELSE {}

\* C25: whenever a tier of the merge reads b_vals[idx] for an entry of a row
\* of B, idx lies before the end of that row (and inside b_vals); exhausted
\* and empty rows are never dereferenced.
MergeReadsInBounds ==
    \A rd \in HeapValueReads \cup ShortValueReads :
        rd.b_idx < rd.b_end /\ rd.b_idx \in DOMAIN b_vals

\* the slots of tmp and of tmpval that belong to row i of A
IndexScratch(i) ==
    {3 * a_row_ptrs[i] + o : o \in 0 .. 3 * RowSize(i) - 1}

ValueScratch(i) == RowEntries(a_row_ptrs, i)

\* C26: the large merge of row i of A writes only the index scratch slots
\* tmp[3 * a_begin .. 3 * a_begin + 3 * |A_i|) and the value scratch slots
\* tmpval[a_begin .. a_begin + |A_i|), no other step writes scratch, the
\* regions of different rows are disjoint, and the 3 * nnz(A) index slots
\* and nnz(A) value slots hold them all.
ScratchStorage ==
    /\ [](/\ \A i, j \in AllRows :
                i /= j => /\ IndexScratch(i) \cap IndexScratch(j) = {}
                          /\ ValueScratch(i) \cap ValueScratch(j) = {}
          /\ \A i \in AllRows : /\ IndexScratch(i) \subseteq DOMAIN tmp
                                /\ ValueScratch(i) \subseteq DOMAIN tmpval
          /\ Cardinality(DOMAIN tmp) = 3 * Cardinality(DOMAIN a_cols)
          /\ Cardinality(DOMAIN tmpval) = Cardinality(DOMAIN a_cols))
    /\ [][/\ \A p \in DOMAIN tmp :
                tmp'[p] /= tmp[p] =>
                    p \in IndexScratch(row) /\ pc' = "large"
          /\ \A p \in DOMAIN tmpval :
                tmpval'[p] /= tmpval[p] =>
                    p \in ValueScratch(row) /\ pc' = "large"]_vars

\* the value pass merges the second row of A by the large merge and has
\* moved entries inside the row's scratch slots
ScratchStorageWitness ==
    /\ phase = "kernel" /\ pc = "large" /\ row = 1 /\ a_begin > 0
    /\ iters >= 1
    /\ \E p \in IndexScratch(1) : tmp[p] /= TmpOf(LargeFill)[p]
    /\ \E p \in ValueScratch(1) : tmpval[p] /= 0

(***************************************************************************)
(* Executor::run and Operation::run (core/base/executor.hpp)               *)
(***************************************************************************)
ExecutorTypes ==
    {"OmpExecutor", "MpiExecutor", "CudaExecutor", "HipExecutor",
     "ReferenceExecutor"}

\* the operations: the four-closure LambdaOperation and an operation bound
\* to its kernels by GKO_REGISTER_OPERATION
OperationTypes == {"LambdaOperation", "registered_operation"}

\* the run overloads an operation overrides
Overrides(op) ==
    IF op = "LambdaOperation"
    THEN {"OmpExecutor", "MpiExecutor", "CudaExecutor", "HipExecutor"}
    ELSE {"OmpExecutor", "CudaExecutor", "HipExecutor", "ReferenceExecutor"}

\* the closure a mistaken LambdaOperation would call: always the host one
LambdaOperation_run_host(type) == "op_omp"

\* the closure LambdaOperation::run(std::shared_ptr<const type>) calls
LambdaOperation_run(type) ==
    CASE type = "OmpExecutor" -> "op_omp"
      [] type = "MpiExecutor" -> "op_mpi"
      [] type = "CudaExecutor" -> "op_cuda"
      [] type = "HipExecutor" -> "op_hip"

\* the kernel namespace GKO_KERNEL_DETAIL_DEFINE_RUN_OVERLOAD calls into
registered_operation_run(type) ==
    CASE type = "OmpExecutor" -> "omp"
      [] type = "CudaExecutor" -> "cuda"
      [] type = "HipExecutor" -> "hip"
      [] type = "ReferenceExecutor" -> "reference"

Event(n, exec, op, ev, arg) ==
    [run |-> n, exec |-> exec, op |-> op, ev |-> ev, arg |-> arg]

\* what the kernel entry point or the closure does
Outcomes == {"returns", "throws"}

\* an overridden overload: the call and what its body does
Override_run(n, exec, op, type, by, outcome) ==
    <<Event(n, exec, op, by, type),
      IF op = "LambdaOperation"
      THEN Event(n, exec, op, "closure", LambdaOperation_run(type))
      ELSE Event(n, exec, op, "kernel", registered_operation_run(type))>>
    \o IF outcome = "throws"
       THEN <<Event(n, exec, op, "throw", "KernelError")>>
       ELSE << >>

\* op.run(std::shared_ptr<const type>): the override, or Operation's own
\* overload, which for the ReferenceExecutor defaults to the OmpExecutor's
\* and otherwise fails with NotImplemented
Operation_run(n, exec, op, type, outcome) ==
    IF type \in Overrides(op)
    THEN Override_run(n, exec, op, type, "Operation::run", outcome)
    ELSE IF type = "ReferenceExecutor"
    THEN <<Event(n, exec, op, "Operation::run", type)>>
         \o Override_run(n, exec, op, "OmpExecutor", "defaulted to", outcome)
    ELSE <<Event(n, exec, op, "Operation::run", type),
           Event(n, exec, op, "throw", "NotImplemented")>>

Thrown(events) == \E i \in DOMAIN events : events[i].ev = "throw"

NextRun == 1 + Cardinality({exec_log[i].run : i \in DOMAIN exec_log})

\* a run that logs the launch only after the operation has run
ExecutorBase_run_late(launched, body, completed) ==
    body \o launched \o completed

\* the body of run(const Operation &op): log operation_launched, op.run,
\* log operation_completed; an exception of op.run leaves run at once
ExecutorBase_run(launched, body, completed) ==
    launched \o body \o IF Thrown(body) THEN << >> ELSE completed

\* run(const Operation &op) of an executor of dynamic type exec that passes
\* itself as a shared_ptr<const type>
Executor_run(exec, type, op, outcome) ==
    /\ NextRun <= MaxRuns
    /\ exec_log' = exec_log \o ExecutorBase_run(
           <<Event(NextRun, exec, op, "operation_launched", exec)>>,
           Operation_run(NextRun, exec, op, type, outcome),
           <<Event(NextRun, exec, op, "operation_completed", exec)>>)
    /\ UNCHANGED not_exec

\* detail::ExecutorBase<OmpExecutor>::run
OmpExecutor_run ==
    \E op \in OperationTypes, outcome \in Outcomes :
        Executor_run("OmpExecutor", "OmpExecutor", op, outcome)

MpiExecutor_run ==
    \E op \in OperationTypes, outcome \in Outcomes :
        Executor_run("MpiExecutor", "MpiExecutor", op, outcome)

ReferenceExecutor_run ==
    \E op \in OperationTypes, outcome \in Outcomes :
        Executor_run("ReferenceExecutor", "ReferenceExecutor", op, outcome)

CudaExecutor_run ==
    \E op \in OperationTypes, outcome \in Outcomes :
        Executor_run("CudaExecutor", "CudaExecutor", op, outcome)

HipExecutor_run ==
    \E op \in OperationTypes, outcome \in Outcomes :
        Executor_run("HipExecutor", "HipExecutor", op, outcome)

\* HipExecutor::run_gpu: log gpu_kernel_launch, submit the kernel, log
\* gpu_kernel_finish
HipExecutor_run_gpu ==
    /\ NextRun <= MaxRuns
    /\ exec_log' = exec_log \o
           <<Event(NextRun, "HipExecutor", "kernel", "gpu_kernel_launch",
                   "HipExecutor"),
             Event(NextRun, "HipExecutor", "kernel", "hipLaunchKernelGGL",
                   "HipExecutor"),
             Event(NextRun, "HipExecutor", "kernel", "gpu_kernel_finish",
                   "HipExecutor")>>
    /\ UNCHANGED not_exec

ExecInit == exec_log = << >>

(***************************************************************************)
(* Distributed Dense (core/matrix/dense.cpp): the data                     *)
(***************************************************************************)
Ranks == 0 .. NumRanks - 1

DistOps ==
    {"apply", "advanced_apply", "compute_dot", "compute_norm2",
     "gather_on_all", "gather_on_root"}

\* the global operands: the matrix A, the right-hand side or vector b, the
\* second vector v of the dot product and the initial x
GlobalA(i, k) == i + 2 * k - 1
GlobalB(g, c) == (g + 1) * (c + 2) - 4
GlobalV(g, c) == 2 * g - c + 1
GlobalX(i, c) == i + c + 1
Scalars == {-1, 2}

RECURSIVE Ascending(_)
\* the elements of a set of numbers in ascending order
Ascending(S) ==
    IF S = {} THEN << >>
    ELSE <<SetMin(S)>> \o Ascending(S \ {SetMin(S)})

\* Dense: row r, column c lives at values[r * stride + c]
at(m, r, c) == m.values[r * m.stride + c]

\* Dense::create(exec): the empty matrix
EmptyDense ==
    [size |-> <<0, 0>>, global_size |-> <<0, 0>>, stride |-> 0,
     row_set |-> {}, values |-> << >>]

\* the global test matrices as functions of (row, column)
Matrix(name) ==
    [g \in 0 .. MaxRows, c \in 0 .. MaxRows |->
        CASE name = "A" -> GlobalA(g, c)
          [] name = "B" -> GlobalB(g, c)
          [] name = "V" -> GlobalV(g, c)
          [] name = "X" -> GlobalX(g, c)]

\* the local part of the global matrix F (rows x cols) on a rank that holds
\* the rows in row_set, in ascending order of the global row
LocalPart(F, row_set, rows, cols, stride) ==
    [size |-> <<Cardinality(row_set), cols>>,
     global_size |-> <<rows, cols>>,
     stride |-> stride,
     row_set |-> row_set,
     values |-> [p \in 0 .. Cardinality(row_set) * stride - 1 |->
                    IF p % stride < cols
                    THEN F[Ascending(row_set)[(p \div stride) + 1], p % stride]
                    ELSE -99]]

Owned(owner, r) == {g \in DOMAIN owner : owner[g] = r}

\* the rows of b a rank holds: all of them when b is replicated
RowsOfRank(r) ==
    IF dist_in.replicated THEN DOMAIN dist_in.owner
    ELSE Owned(dist_in.owner, r)

\* b (or the vector u, or the matrix to gather) on rank r
LocalB(r) ==
    LocalPart(Matrix("B"), RowsOfRank(r), dist_in.rows, dist_in.cols,
              dist_in.stride)

\* the second vector of the dot product, distributed as the first
LocalV(r) ==
    LocalPart(Matrix("V"), RowsOfRank(r), dist_in.rows, dist_in.cols,
              dist_in.stride)

\* the rows of A on rank r; A has as many columns as b has rows
LocalA(r) ==
    LocalPart(Matrix("A"), Owned(dist_in.a_owner, r),
              Cardinality(DOMAIN dist_in.a_owner), dist_in.rows, dist_in.rows)

\* x on rank r before the apply, partitioned as A
LocalX(r) ==
    LocalPart(Matrix("X"), Owned(dist_in.a_owner, r),
              Cardinality(DOMAIN dist_in.a_owner), dist_in.cols, dist_in.cols)

\* the operands the operations are run on
DistInputs ==
    LET Owners(n) == [0 .. n - 1 -> Ranks]
        Whole(n) == [g \in 0 .. n - 1 |-> 0]
        Base(op, n, owner, rep, cols, stride) ==
            [op |-> op, rows |-> n, owner |-> owner, replicated |-> rep,
             cols |-> cols, stride |-> stride, a_owner |-> Whole(2),
             alpha |-> 1, beta |-> 0, swapped |-> FALSE]
        Distributions(op, n, cols, strides) ==
            {Base(op, n, o, FALSE, cols, st) : o \in Owners(n), st \in strides}
            \cup {Base(op, n, Whole(n), TRUE, cols, st) : st \in strides}
    IN  UNION {
          {[d EXCEPT !.a_owner = ao] :
              d \in Distributions("apply", n, 1, {2}), ao \in Owners(2)}
          \cup {[d EXCEPT !.a_owner = ao, !.alpha = al, !.beta = be] :
              d \in Distributions("advanced_apply", n, 1, {2}),
              ao \in Owners(2), al \in Scalars, be \in Scalars}
          \cup {[d EXCEPT !.swapped = sw] :
              d \in Distributions("compute_dot", n, 2, {2, 3}),
              sw \in BOOLEAN}
          \cup Distributions("compute_norm2", n, 2, {2, 3})
          \cup {d \in Distributions("gather_on_all", n, 2, {2, 3}) :
                   ~d.replicated}
          \cup {d \in Distributions("gather_on_root", n, 2, {2, 3}) :
                   ~d.replicated}
          : n \in 1 .. MaxRows}

NoLocals ==
    [send |-> 0, col |-> 0, global_num_rows |-> 0, index_set |-> {},
     gathered |-> << >>, tmp_norm |-> << >>]

\* the 1 x cols result of compute_dot and compute_norm2, zero before the call
ResultVector(cols) ==
    [size |-> <<1, cols>>, global_size |-> <<1, cols>>, stride |-> cols,
     row_set |-> {}, values |-> [c \in 0 .. cols - 1 |-> 0]]

DistInit ==
    /\ dist_in \in DistInputs
    \* MpiExecutor's constructor: root_rank_ = 0
    /\ root_rank = [r \in Ranks |-> 0]
    /\ dist_pc = [r \in Ranks |-> "start"]
    /\ dist_loc = [r \in Ranks |-> NoLocals]
    /\ dist_out = [r \in Ranks |->
           IF dist_in.op \in {"apply", "advanced_apply"} THEN LocalX(r)
           ELSE IF dist_in.op \in {"compute_dot", "compute_norm2"}
           THEN ResultVector(dist_in.cols)
           ELSE EmptyDense]
    /\ dist_log = [r \in Ranks |-> << >>]

\* no distributed operation is running
DistIdle ==
    /\ dist_in = [op |-> "none"]
    /\ root_rank = [r \in Ranks |-> 0]
    /\ dist_pc = [r \in Ranks |-> "done"]
    /\ dist_loc = [r \in Ranks |-> NoLocals]
    /\ dist_out = [r \in Ranks |-> EmptyDense]
    /\ dist_log = [r \in Ranks |-> << >>]

(***************************************************************************)
(* Distributed Dense: the operations, one rank at a time; the collectives  *)
(* are barriers that complete on all ranks at once                         *)
(***************************************************************************)
\* the dense kernel x = a * b
simple_apply(a, b, x) ==
    [x EXCEPT !.values = [p \in DOMAIN @ |->
        IF p % x.stride < x.size[2]
        THEN SetSum([k \in 0 .. a.size[2] - 1 |->
                        at(a, p \div x.stride, k) * at(b, k, p % x.stride)],
                    0 .. a.size[2] - 1)
        ELSE @[p]]]

\* the dense kernel x = alpha * a * b + beta * x
apply(alpha, a, b, beta, x) ==
    [x EXCEPT !.values = [p \in DOMAIN @ |->
        IF p % x.stride < x.size[2]
        THEN alpha * at(simple_apply(a, b, x), p \div x.stride, p % x.stride)
             + beta * @[p]
        ELSE @[p]]]

\* the dense kernel compute_dot: the column-wise dot of the local rows
compute_dot(u, v) ==
    [c \in 0 .. u.size[2] - 1 |->
        SetSum([i \in 0 .. u.size[1] - 1 |-> at(u, i, c) * at(v, i, c)],
               0 .. u.size[1] - 1)]

\* Array::sqrt on non-negative integers
sqrt(n) == CHOOSE k \in 0 .. n : k * k <= n /\ (k + 1) * (k + 1) > n

Logged(r, events) == [dist_log EXCEPT ![r] = @ \o events]

\* an apply that ignores alpha and beta
apply_kernel_simple(a, b, x) == simple_apply(a, b, x)

\* the kernel the two forms of distributed_apply_impl run
apply_kernel(a, b, x) ==
    IF dist_in.op = "apply" THEN simple_apply(a, b, x)
    ELSE apply(dist_in.alpha, a, b, dist_in.beta, x)

\* a flag that makes every rank gather
distributed_apply_flag_never(b) == FALSE

\* flag = dense_b->get_size() == dense_b->get_global_size()
distributed_apply_flag(b) == b.size = b.global_size

\* gather_on_root and gather_on_all up to the all_reduce of the row counts
gather_enter(r, m, name) ==
    /\ dist_loc' = [dist_loc EXCEPT ![r].send = Cardinality(m.row_set)]
    /\ dist_pc' = [dist_pc EXCEPT ![r] = "all_reduce"]
    /\ dist_log' = Logged(r, <<name, "all_reduce">>)
    /\ UNCHANGED dist_out

\* Dense::distributed_apply_impl up to its end or its first collective
distributed_apply_impl(r) ==
    /\ dist_in.op \in {"apply", "advanced_apply"}
    /\ dist_pc[r] = "start"
    /\ IF distributed_apply_flag(LocalB(r))
       THEN /\ dist_out' = [dist_out EXCEPT
                              ![r] = apply_kernel(LocalA(r), LocalB(r), @)]
            /\ dist_pc' = [dist_pc EXCEPT ![r] = "done"]
            /\ dist_log' = Logged(r, <<"apply(dense_b)">>)
            /\ UNCHANGED dist_loc
       ELSE gather_enter(r, LocalB(r), "gather_on_all")
    /\ UNCHANGED <<not_dist, dist_in, root_rank>>

\* Dense::gather_on_root and Dense::gather_on_all called on the matrix
gather_begin(r) ==
    /\ dist_in.op \in {"gather_on_all", "gather_on_root"}
    /\ dist_pc[r] = "start"
    /\ gather_enter(r, LocalB(r), dist_in.op)
    /\ UNCHANGED <<not_dist, dist_in, root_rank>>

\* Dense::compute_dot_impl up to the first all_reduce; this is the vector u
\* or, with the operands swapped, v
compute_dot_impl(r) ==
    /\ dist_in.op = "compute_dot"
    /\ dist_pc[r] = "start"
    /\ LET local == IF dist_in.swapped
                    THEN compute_dot(LocalV(r), LocalB(r))
                    ELSE compute_dot(LocalB(r), LocalV(r))
       IN  /\ dist_out' = [dist_out EXCEPT ![r].values = local]
           /\ dist_loc' = [dist_loc EXCEPT ![r].send = local[0], ![r].col = 0]
    /\ dist_pc' = [dist_pc EXCEPT ![r] = "all_reduce"]
    /\ dist_log' = Logged(r, <<"compute_dot", "all_reduce">>)
    /\ UNCHANGED <<not_dist, dist_in, root_rank>>

\* the values tmp_norm = Dense::create(sub_exec, this->get_size()) holds
tmp_norm_values(m) == m.size[1] * m.size[2]

\* Dense::compute_norm2_impl up to the first all_reduce.  compute_dot
\* writes one value per column into tmp_norm; when tmp_norm holds fewer
\* values the kernel and the all_reduce work outside of it: the rank faults
\* or works on whatever is there.
compute_norm2_impl(r) ==
    /\ dist_in.op = "compute_norm2"
    /\ dist_pc[r] = "start"
    /\ IF tmp_norm_values(LocalB(r)) >= dist_in.cols
       THEN /\ dist_loc' = [dist_loc EXCEPT
                  ![r].tmp_norm = compute_dot(LocalB(r), LocalB(r)),
                  ![r].send = compute_dot(LocalB(r), LocalB(r))[0],
                  ![r].col = 0]
            /\ dist_pc' = [dist_pc EXCEPT ![r] = "all_reduce"]
            /\ dist_log' = Logged(r, <<"compute_dot", "all_reduce">>)
       ELSE \/ /\ dist_pc' = [dist_pc EXCEPT ![r] = "fault"]
               /\ dist_log' = Logged(r, <<"compute_dot">>)
               /\ UNCHANGED dist_loc
            \/ \E g \in Garbage :
               /\ dist_loc' = [dist_loc EXCEPT
                     ![r].tmp_norm = [c \in 0 .. dist_in.cols - 1 |-> g],
                     ![r].send = g,
                     ![r].col = 0]
               /\ dist_pc' = [dist_pc EXCEPT ![r] = "all_reduce"]
               /\ dist_log' = Logged(r, <<"compute_dot", "all_reduce">>)
    /\ UNCHANGED <<not_dist, dist_in, root_rank, dist_out>>

\* what a rank does with the sum of an all_reduce, up to its next collective
after_all_reduce(r, sum) ==
    LET col == dist_loc[r].col
        last == col + 1 >= dist_in.cols
    IN  IF dist_in.op = "compute_dot"
        THEN [out |-> [dist_out[r] EXCEPT !.values[col] = sum],
              loc |-> IF last THEN dist_loc[r]
                      ELSE [dist_loc[r] EXCEPT
                              !.col = col + 1,
                              !.send = dist_out[r].values[col + 1]],
              pc |-> IF last THEN "done" ELSE "all_reduce",
              log |-> IF last THEN << >> ELSE <<"all_reduce">>]
        ELSE IF dist_in.op = "compute_norm2"
        THEN [out |-> dist_out[r],
              loc |-> IF last
                      THEN [dist_loc[r] EXCEPT !.tmp_norm[col] = sum]
                      ELSE [dist_loc[r] EXCEPT
                              !.tmp_norm[col] = sum,
                              !.col = col + 1,
                              !.send = dist_loc[r].tmp_norm[col + 1]],
              pc |-> IF last THEN "sqrt" ELSE "all_reduce",
              log |-> IF last THEN << >> ELSE <<"all_reduce">>]
        ELSE [out |-> dist_out[r],
              loc |-> [dist_loc[r] EXCEPT !.global_num_rows = sum],
              pc |-> "reduced",
              log |-> << >>]

\* MpiExecutor::all_reduce with op_type::sum: completes when every rank of
\* the communicator has entered it
all_reduce ==
    /\ \A r \in Ranks : dist_pc[r] = "all_reduce"
    /\ LET sum == SetSum([r \in Ranks |-> dist_loc[r].send], Ranks)
       IN  /\ dist_out' = [r \in Ranks |-> after_all_reduce(r, sum).out]
           /\ dist_loc' = [r \in Ranks |-> after_all_reduce(r, sum).loc]
           /\ dist_pc' = [r \in Ranks |-> after_all_reduce(r, sum).pc]
           /\ dist_log' = [r \in Ranks |->
                              dist_log[r] \o after_all_reduce(r, sum).log]
    /\ UNCHANGED <<not_dist, dist_in, root_rank>>

\* squared_norm.sqrt(norm_arr)
compute_norm2_sqrt(r) ==
    /\ dist_pc[r] = "sqrt"
    /\ dist_out' = [dist_out EXCEPT ![r].values =
           [c \in 0 .. dist_in.cols - 1 |-> sqrt(dist_loc[r].tmp_norm[c])]]
    /\ dist_pc' = [dist_pc EXCEPT ![r] = "done"]
    /\ dist_log' = Logged(r, <<"sqrt">>)
    /\ UNCHANGED <<not_dist, dist_in, root_rank, dist_loc>>

\* IndexSet::add_dense_row for each element of row_set: the positions of
\* the local rows in the global value array
dense_row_index_set(row_set, stride) ==
    {e * stride + j : e \in row_set, j \in 0 .. stride - 1}

\* the index set of the local values, after the all_reduce of the row counts
gather_index_set(r) ==
    /\ dist_pc[r] = "reduced"
    /\ dist_loc' = [dist_loc EXCEPT ![r].index_set =
           dense_row_index_set(LocalB(r).row_set, LocalB(r).stride)]
    /\ dist_pc' = [dist_pc EXCEPT ![r] = "gather"]
    /\ dist_log' = Logged(r, <<IF dist_in.op = "gather_on_root"
                               THEN "Array::gather_on_root"
                               ELSE "Array::gather_on_all">>)
    /\ UNCHANGED <<not_dist, dist_in, root_rank, dist_out>>

\* the array an MPI gatherv assembles: the k-th local value of a rank goes
\* to the k-th smallest index of the rank's index set; a position no rank
\* sends stays unset
gathered_array ==
    LET total == SetSum([r \in Ranks |->
                            Cardinality(dist_loc[r].index_set)], Ranks)
        Senders(p) == {q \in Ranks : p \in dist_loc[q].index_set}
    IN  [p \in 0 .. total - 1 |->
            IF Senders(p) = {} THEN -99
            ELSE LET q == SetMin(Senders(p))
                     k == Cardinality({i \in dist_loc[q].index_set : i < p})
                 IN  LocalB(q).values[k]]

\* the root rank of a gather is the rank with the smallest number
is_root_rank_zero(my_rank, root) == my_rank = 0

\* my_rank == root_rank
is_root_rank(my_rank, root) == my_rank = root

\* Array::gather_on_all: every rank receives the gathered array
Array_gather_on_all ==
    /\ dist_in.op # "gather_on_root"
    /\ \A r \in Ranks : dist_pc[r] = "gather"
    /\ dist_loc' = [r \in Ranks |->
                       [dist_loc[r] EXCEPT !.gathered = gathered_array]]
    /\ dist_pc' = [r \in Ranks |-> "gathered"]
    /\ UNCHANGED <<not_dist, dist_in, root_rank, dist_out, dist_log>>

\* Array::gather_on_root: the ranks must name the same root, and only the
\* root receives the gathered array
Array_gather_on_root ==
    /\ dist_in.op = "gather_on_root"
    /\ \A r \in Ranks : dist_pc[r] = "gather"
    /\ \A r, q \in Ranks : root_rank[r] = root_rank[q]
    /\ dist_loc' = [r \in Ranks |->
           IF r = root_rank[r]
           THEN [dist_loc[r] EXCEPT !.gathered = gathered_array]
           ELSE dist_loc[r]]
    /\ dist_pc' = [r \in Ranks |-> "gathered"]
    /\ UNCHANGED <<not_dist, dist_in, root_rank, dist_out, dist_log>>

\* Dense::create(exec, dim(global_num_rows, cols), row_set, array, stride)
gathered_dense(r) ==
    [size |-> <<dist_loc[r].global_num_rows, LocalB(r).size[2]>>,
     global_size |-> <<dist_loc[r].global_num_rows, LocalB(r).size[2]>>,
     stride |-> LocalB(r).stride,
     row_set |-> LocalB(r).row_set,
     values |-> dist_loc[r].gathered]

\* the end of gather_on_root and gather_on_all, and with it the end of a
\* distributed apply whose b was gathered
gather_finish(r) ==
    /\ dist_pc[r] = "gathered"
    /\ dist_out' = [dist_out EXCEPT ![r] =
           IF dist_in.op = "gather_on_all" THEN gathered_dense(r)
           ELSE IF dist_in.op = "gather_on_root"
           THEN IF is_root_rank(r, root_rank[r]) THEN gathered_dense(r)
                ELSE EmptyDense
           ELSE apply_kernel(LocalA(r), gathered_dense(r), @)]
    /\ dist_pc' = [dist_pc EXCEPT ![r] = "done"]
    /\ dist_log' = IF dist_in.op \in {"apply", "advanced_apply"}
                   THEN Logged(r, <<"apply(gathered_rhs)">>)
                   ELSE dist_log
    /\ UNCHANGED <<not_dist, dist_in, root_rank, dist_loc>>

\* MpiExecutor::set_root_rank, called before the gather
MpiExecutor_set_root_rank(r) ==
    /\ dist_in.op = "gather_on_root"
    /\ dist_pc[r] = "start"
    /\ \E rank \in Ranks : root_rank' = [root_rank EXCEPT ![r] = rank]
    /\ UNCHANGED <<not_dist, dist_in, dist_pc, dist_loc, dist_out, dist_log>>

(***************************************************************************)
(* Claims on the distributed Dense matrix                                  *)
(***************************************************************************)
ApplyOps == {"apply", "advanced_apply"}

LogHas(r, e) == \E i \in DOMAIN dist_log[r] : dist_log[r][i] = e

AllDone == \A r \in Ranks : dist_pc[r] = "done"

\* a partition of three or more rows in which some rank's rows are not
\* contiguous
NonContiguous(owner) ==
    \E g \in DOMAIN owner :
        /\ g + 2 \in DOMAIN owner
        /\ owner[g] = owner[g + 2]
        /\ owner[g] # owner[g + 1]

\* row i of the single-process product (global A) * (global b)
GlobalProduct(i) ==
    SetSum([k \in 0 .. dist_in.rows - 1 |-> GlobalA(i, k) * GlobalB(k, 0)],
           0 .. dist_in.rows - 1)

\* row i of the single-process apply
GlobalApply(i) ==
    IF dist_in.op = "apply" THEN GlobalProduct(i)
    ELSE dist_in.alpha * GlobalProduct(i) + dist_in.beta * GlobalX(i, 0)

GathersExactlyWhenNeeded ==
    dist_in.op \in ApplyOps =>
        \A r \in Ranks :
            /\ dist_pc[r] # "start" =>
                   (LogHas(r, "gather_on_all")
                        <=> LocalB(r).size # LocalB(r).global_size)
            /\ (dist_pc[r] # "start"
                    /\ LocalB(r).size = LocalB(r).global_size) =>
                   /\ dist_pc[r] = "done"
                   /\ dist_log[r] = <<"apply(dense_b)">>
            /\ dist_pc[r] # "done" => dist_out[r] = LocalX(r)
            /\ dist_out[r].row_set = LocalX(r).row_set
            /\ dist_out[r].size = LocalX(r).size
            /\ dist_out[r].global_size = LocalX(r).global_size

GathersExactlyWhenNeededWitness ==
    /\ dist_in.op = "apply"
    /\ \E r, q \in Ranks :
           /\ Owned(dist_in.owner, r) # {}
           /\ Owned(dist_in.owner, q) # {}
           /\ dist_pc[r] = "done"
           /\ dist_log[r] = <<"gather_on_all", "all_reduce",
                              "Array::gather_on_all", "apply(gathered_rhs)">>
           /\ dist_out[r] # LocalX(r)
           /\ dist_pc[q] = "gathered"
           /\ dist_out[q] = LocalX(q)

\* C27: in a distributed apply, for every row partition of b over the ranks
\* (a rank may own all rows and another none), either every rank enters the
\* all-gather or no rank does: no rank waits in a collective that a rank
\* which has left the start of the apply skips.
CollectiveAgreement ==
    dist_in.op \in ApplyOps =>
        \A r, q \in Ranks :
            (LogHas(r, "gather_on_all") /\ dist_pc[q] # "start") =>
                LogHas(q, "gather_on_all")

\* column c of the dot product of the global vectors u and v
GlobalDot(c) ==
    SetSum([g \in 0 .. dist_in.rows - 1 |-> GlobalB(g, c) * GlobalV(g, c)],
           0 .. dist_in.rows - 1)

\* C8: a rank that has finished compute_dot holds in result, for each
\* column, the dot product of the global vectors with every global row
\* counted once, whether the vectors are row-partitioned or replicated and
\* in either order of the operands, after the local dot and one all_reduce
\* per column.
DistributedDot ==
    dist_in.op = "compute_dot" =>
        \A r \in Ranks :
            dist_pc[r] = "done" =>
                /\ \A c \in 0 .. dist_in.cols - 1 :
                       dist_out[r].values[c] = GlobalDot(c)
                /\ dist_log[r] = <<"compute_dot">>
                       \o [c \in 1 .. dist_in.cols |-> "all_reduce"]

\* the sum of the squares of column c over the rows a rank holds
LocalSquares(r, c) ==
    SetSum([g \in RowsOfRank(r) |-> GlobalB(g, c) * GlobalB(g, c)],
           RowsOfRank(r))

\* C9: compute_norm2 never fails, and a rank that has finished it has
\* formed the local sums of squares, then all-reduced each column, then
\* taken the square root once, so that the result is the square root of
\* the sum of the ranks' local sums.
DistributedNorm2 ==
    dist_in.op = "compute_norm2" =>
        \A r \in Ranks :
            /\ dist_pc[r] # "fault"
            /\ dist_pc[r] = "done" =>
                   /\ \A c \in 0 .. dist_in.cols - 1 :
                          dist_out[r].values[c] =
                              sqrt(SetSum([q \in Ranks |-> LocalSquares(q, c)],
                                          Ranks))
                   /\ dist_log[r] = <<"compute_dot">>
                          \o [c \in 1 .. dist_in.cols |-> "all_reduce"]
                          \o <<"sqrt">>

\* the gathered matrix: global size, source stride, row g at g * stride
IsGlobalMatrix(m) ==
    /\ m.size = <<dist_in.rows, dist_in.cols>>
    /\ m.global_size = <<dist_in.rows, dist_in.cols>>
    /\ m.stride = dist_in.stride
    /\ DOMAIN m.values = 0 .. dist_in.rows * dist_in.stride - 1
    /\ \A g \in 0 .. dist_in.rows - 1 :
           \A c \in 0 .. dist_in.cols - 1 :
               m.values[g * dist_in.stride + c] = GlobalB(g, c)

AccKinds == {"CudaExecutor", "HipExecutor"}

HostKinds == {"OmpExecutor", "ReferenceExecutor"}

\* device ids; the source allows max_devices of them
Devices == {0, 1}

\* the host threads that create and destroy executors
Threads == {1, 2}

MemorySpaces ==
    {"HostMemorySpace", "CudaMemorySpace", "CudaUVMSpace", "HipMemorySpace"}

\* the counters and the mutexes are static arrays of each executor class
Counters == AccKinds \X Devices

\* a check that accepts only the memory space class the executor creates
\* for itself
check_mem_space_validity_own(kind, mem_space) ==
    mem_space = CASE kind \in HostKinds -> "HostMemorySpace"
                  [] kind = "CudaExecutor" -> "CudaMemorySpace"
                  [] kind = "HipExecutor" -> "HipMemorySpace"

\* check_mem_space_validity of the executor classes: the dynamic_cast of
\* the memory space succeeds
check_mem_space_validity(kind, mem_space) ==
    CASE kind \in HostKinds -> mem_space = "HostMemorySpace"
      [] kind = "CudaExecutor" ->
             mem_space \in {"CudaMemorySpace", "CudaUVMSpace"}
      [] kind = "HipExecutor" -> mem_space = "HipMemorySpace"

\* the memory space a constructor without a memory space creates
own_mem_space(kind) ==
    CASE kind \in HostKinds -> "HostMemorySpace"
      [] kind = "CudaExecutor" -> "CudaMemorySpace"
      [] kind = "HipExecutor" -> "HipMemorySpace"

NoExec ==
    [kind |-> "none", device_id |-> 0, device_reset |-> FALSE,
     mem_space |-> "none", state |-> "none"]

IdleThread == [pc |-> "idle", exec |-> 0, reg |-> 0, result |-> "none"]

AccInit ==
    /\ acc_execs = [e \in 1 .. MaxExecs |-> NoExec]
    /\ num_execs = [c \in Counters |-> 0]
    /\ mutex = [c \in Counters |-> 0]
    /\ acc_thr = [t \in Threads |-> IdleThread]
    /\ acc_reset = [c \in Counters |->
                       [requested |-> FALSE, fired |-> 0, early |-> FALSE]]

\* the executors of a counter that are constructed and not yet destroyed
LiveExecs(c) ==
    {e \in 1 .. MaxExecs :
        /\ acc_execs[e].state \in {"live", "destroying"}
        /\ <<acc_execs[e].kind, acc_execs[e].device_id>> = c}

CounterOf(e) == <<acc_execs[e].kind, acc_execs[e].device_id>>

\* std::lock_guard<std::mutex> guard(mutex[device_id]) can be entered
mutex_is_free(m) == m = 0

\* OmpExecutor(mem_space) and ReferenceExecutor(mem_space), and the
\* constructors without a memory space
HostExecutor_construct(t) ==
    /\ acc_thr[t].pc = "idle"
    /\ \E e \in 1 .. MaxExecs, kind \in HostKinds,
          form \in {"default"} \cup MemorySpaces :
          LET mem_space == IF form = "default" THEN own_mem_space(kind)
                           ELSE form
              valid == check_mem_space_validity(kind, mem_space)
          IN  /\ acc_execs[e].state = "none"
              /\ \A f \in 1 .. e - 1 : acc_execs[f].state # "none"
              /\ acc_execs' = [acc_execs EXCEPT ![e] =
                     [kind |-> kind, device_id |-> 0, device_reset |-> FALSE,
                      mem_space |-> mem_space,
                      state |-> IF valid THEN "live" ELSE "failed"]]
              /\ acc_thr' = [acc_thr EXCEPT ![t] =
                     [IdleThread EXCEPT !.result =
                         IF valid THEN "created" ELSE "MemorySpaceMismatch",
                      !.exec = e]]
    /\ UNCHANGED <<not_acc, num_execs, mutex, acc_reset>>

\* the constructors of CudaExecutor and HipExecutor up to and into
\* increase_num_execs: the thread holds the mutex and has read the counter.
\* form is the flag device_reset of the first constructor, or the memory
\* space of the second.
AccExecutor_construct(t) ==
    /\ acc_thr[t].pc = "idle"
    /\ \E e \in 1 .. MaxExecs, kind \in AccKinds, device_id \in Devices,
          form \in {"device_reset", "no_device_reset"} \cup MemorySpaces :
          /\ acc_execs[e].state = "none"
          /\ \A f \in 1 .. e - 1 : acc_execs[f].state # "none"
          /\ mutex_is_free(mutex[<<kind, device_id>>])
          /\ mutex' = [mutex EXCEPT ![<<kind, device_id>>] = t]
          /\ acc_execs' = [acc_execs EXCEPT ![e] =
                 [kind |-> kind, device_id |-> device_id,
                  device_reset |-> form = "device_reset",
                  mem_space |-> IF form \in MemorySpaces THEN form
                                ELSE own_mem_space(kind),
                  state |-> "constructing"]]
          /\ acc_thr' = [acc_thr EXCEPT ![t] =
                 [pc |-> "increase_num_execs", exec |-> e,
                  reg |-> num_execs[<<kind, device_id>>], result |-> "none"]]
    /\ UNCHANGED <<not_acc, num_execs, acc_reset>>

\* num_execs[device_id]++, the end of the lock_guard and the rest of the
\* constructor: the second constructor checks the memory space after the
\* counter has been increased, and a constructor that throws runs no
\* destructor
AccExecutor_constructed(t) ==
    LET e == acc_thr[t].exec
        c == CounterOf(e)
        valid == check_mem_space_validity(acc_execs[e].kind,
                                          acc_execs[e].mem_space)
    IN  /\ acc_thr[t].pc = "increase_num_execs"
        /\ num_execs' = [num_execs EXCEPT ![c] = acc_thr[t].reg + 1]
        /\ mutex' = [mutex EXCEPT ![c] = 0]
        /\ acc_execs' = [acc_execs EXCEPT ![e].state =
               IF valid THEN "live" ELSE "failed"]
        /\ acc_thr' = [acc_thr EXCEPT ![t] =
               [IdleThread EXCEPT !.result =
                   IF valid THEN "created" ELSE "MemorySpaceMismatch",
                !.exec = e]]
        /\ acc_reset' = [acc_reset EXCEPT ![c] =
               IF ~valid THEN @
               ELSE IF LiveExecs(c) = {}
               THEN [requested |-> acc_execs[e].device_reset, fired |-> 0,
                     early |-> @.early]
               ELSE [@ EXCEPT !.requested =
                        @ \/ acc_execs[e].device_reset]]
        /\ UNCHANGED not_acc

\* the destruction of an executor up to and into decrease_num_execs
AccExecutor_destroy(t) ==
    /\ acc_thr[t].pc = "idle"
    /\ \E e \in 1 .. MaxExecs :
          /\ acc_execs[e].state = "live"
          /\ acc_execs[e].kind \in AccKinds
          /\ mutex_is_free(mutex[CounterOf(e)])
          /\ mutex' = [mutex EXCEPT ![CounterOf(e)] = t]
          /\ acc_execs' = [acc_execs EXCEPT ![e].state = "destroying"]
          /\ acc_thr' = [acc_thr EXCEPT ![t] =
                 [pc |-> "decrease_num_execs", exec |-> e,
                  reg |-> num_execs[CounterOf(e)], result |-> "none"]]
    /\ UNCHANGED <<not_acc, num_execs, acc_reset>>

\* num_execs[device_id]-- and the end of the lock_guard
AccExecutor_destroyed(t) ==
    LET e == acc_thr[t].exec
        c == CounterOf(e)
    IN  /\ acc_thr[t].pc = "decrease_num_execs"
        /\ num_execs' = [num_execs EXCEPT ![c] = acc_thr[t].reg - 1]
        /\ mutex' = [mutex EXCEPT ![c] = 0]
        /\ acc_execs' = [acc_execs EXCEPT ![e].state = "destroyed"]
        /\ acc_thr' = [acc_thr EXCEPT ![t].pc = "get_num_execs"]
        /\ UNCHANGED <<not_acc, acc_reset>>

\* after the destructor: get_num_execs(device_id) under the mutex, and the
\* flag of the executor that was destroyed
get_num_execs(t) ==
    LET e == acc_thr[t].exec
        c == CounterOf(e)
    IN  /\ acc_thr[t].pc = "get_num_execs"
        /\ mutex_is_free(mutex[c])
        /\ acc_thr' = [acc_thr EXCEPT ![t] =
               IF num_execs[c] = 0 /\ acc_execs[e].device_reset
               THEN [@ EXCEPT !.pc = "DeviceReset"]
               ELSE [IdleThread EXCEPT !.result = "destroyed"]]
        /\ UNCHANGED <<not_acc, acc_execs, num_execs, mutex, acc_reset>>

\* the reset of the device
DeviceReset(t) ==
    LET e == acc_thr[t].exec
        c == CounterOf(e)
    IN  /\ acc_thr[t].pc = "DeviceReset"
        /\ acc_reset' = [acc_reset EXCEPT ![c] =
               [requested |-> @.requested, fired |-> @.fired + 1,
                early |-> @.early \/ LiveExecs(c) # {}]]
        /\ acc_thr' = [acc_thr EXCEPT ![t] =
               [IdleThread EXCEPT !.result = "destroyed"]]
        /\ UNCHANGED <<not_acc, acc_execs, num_execs, mutex>>

(***************************************************************************)
(* Claims on the construction and destruction of executors (SpecAcc)       *)
(***************************************************************************)
\* the threads inside the mutex of a counter
InsideMutex(c) ==
    {t \in Threads :
        /\ acc_thr[t].pc \in {"increase_num_execs", "decrease_num_execs"}
        /\ CounterOf(acc_thr[t].exec) = c}

\* the threads that are constructing or destroying an executor of a counter
WorkingOn(c) ==
    {t \in Threads :
        /\ acc_thr[t].pc # "idle"
        /\ CounterOf(acc_thr[t].exec) = c}

\* C11: increments and decrements of one device never interleave, the
\* counter is never negative, and whenever no constructor or destructor is
\* inside the mutex the counter of a device equals the number of its
\* executors that are constructed and not yet destroyed.
LiveExecutorCounter ==
    \A c \in Counters :
        /\ Cardinality(InsideMutex(c)) <= 1
        /\ num_execs[c] >= 0
        /\ mutex[c] = 0 => num_execs[c] = Cardinality(LiveExecs(c))

\* C28: a construction of a CudaExecutor or HipExecutor that fails with
\* MemorySpaceMismatch leaves the counter of its device at the value it had
\* before the call, so the counter is 0 again once every successfully
\* created executor of the device is destroyed.
FailedConstructionKeepsCounter ==
    /\ [][\A t \in Threads :
              (/\ acc_thr[t].pc = "increase_num_execs"
               /\ acc_thr'[t].result = "MemorySpaceMismatch") =>
                  num_execs'[CounterOf(acc_thr[t].exec)] = acc_thr[t].reg]_vars
    /\ [](\A c \in Counters :
              (WorkingOn(c) = {} /\ LiveExecs(c) = {}) => num_execs[c] = 0)

\* C12: the device reset never fires while an executor of the device is
\* alive, and when the last executor of a device has been destroyed it has
\* fired exactly once if any executor of the device was created with the
\* reset enabled.
DeviceResetOnce ==
    \A c \in Counters :
        /\ ~acc_reset[c].early
        /\ acc_reset[c].fired <= 1
        /\ (WorkingOn(c) = {} /\ LiveExecs(c) = {} /\ acc_reset[c].requested)
               => acc_reset[c].fired = 1

\* get_mem_space(): mem_space_instance_
get_mem_space(e) == acc_execs[e].mem_space

\* the memory spaces the executor types are documented to accept
Compatible(kind, mem_space) ==
    \/ kind \in HostKinds /\ mem_space = "HostMemorySpace"
    \/ kind = "CudaExecutor" /\ mem_space \in {"CudaMemorySpace", "CudaUVMSpace"}
    \/ kind = "HipExecutor" /\ mem_space = "HipMemorySpace"

\* the constructions that have returned or raised
Constructions ==
    {e \in 1 .. MaxExecs : acc_execs[e].state \notin {"none", "constructing"}}

\* C16: a construction with a memory space that is not compatible with the
\* executor type raises MemorySpaceMismatch and returns no executor; with
\* a compatible memory space it returns an executor whose get_mem_space()
\* is that memory space.
MemorySpaceChecked ==
    /\ \A e \in Constructions :
           IF Compatible(acc_execs[e].kind, acc_execs[e].mem_space)
           THEN /\ acc_execs[e].state # "failed"
                /\ get_mem_space(e) = acc_execs[e].mem_space
           ELSE acc_execs[e].state = "failed"
    /\ \A t \in Threads :
           acc_thr[t].result \in {"created", "MemorySpaceMismatch"} =>
               (acc_thr[t].result = "MemorySpaceMismatch"
                    <=> acc_execs[acc_thr[t].exec].state = "failed")

\* a CudaExecutor on a unified memory space was created and the
\* construction of a host executor on a device memory space has failed
MemorySpaceCheckedWitness ==
    \E e, f \in Constructions, t \in Threads :
        /\ acc_execs[e].kind = "CudaExecutor"
        /\ acc_execs[e].mem_space = "CudaUVMSpace"
        /\ acc_execs[e].state = "live"
        /\ acc_execs[f].kind \in HostKinds
        /\ acc_execs[f].mem_space = "HipMemorySpace"
        /\ acc_execs[f].state = "failed"
        /\ acc_thr[t].exec = f
        /\ acc_thr[t].result = "MemorySpaceMismatch"

(***************************************************************************)
(* Claims on the executors (checked under SpecExec)                        *)
(***************************************************************************)
EventsOf(n, ev) ==
    {i \in DOMAIN exec_log : exec_log[i].run = n /\ exec_log[i].ev = ev}

\* the calls of Executor::run
RunsLogged ==
    {exec_log[i].run : i \in {j \in DOMAIN exec_log :
                              exec_log[j].ev = "operation_launched"}}

\* the closure the documentation of the four-closure run names for a type
ClosureFor(exec) ==
    CASE exec \in {"OmpExecutor", "ReferenceExecutor"} -> "op_omp"
      [] exec = "MpiExecutor" -> "op_mpi"
      [] exec = "CudaExecutor" -> "op_cuda"
      [] exec = "HipExecutor" -> "op_hip"

\* C5: every call of Executor::run invokes exactly one Operation::run
\* overload, the one of the executor's dynamic type; with four closures the
\* OmpExecutor and the ReferenceExecutor run the host closure, the others
\* their own, and no other closure is called.
ExecutorDispatch ==
    \A n \in RunsLogged :
        /\ Cardinality(EventsOf(n, "Operation::run")) = 1
        /\ \A i \in EventsOf(n, "Operation::run") :
               exec_log[i].arg = exec_log[i].exec
        /\ \A i \in EventsOf(n, "operation_launched") :
               exec_log[i].op = "LambdaOperation" =>
                   /\ Cardinality(EventsOf(n, "closure")) = 1
                   /\ \A j \in EventsOf(n, "closure") :
                          exec_log[j].arg = ClosureFor(exec_log[i].exec)

\* a ReferenceExecutor and an MpiExecutor have each run four closures
ExecutorDispatchWitness ==
    /\ \E i \in DOMAIN exec_log :
           /\ exec_log[i].ev = "closure"
           /\ exec_log[i].exec = "ReferenceExecutor"
    /\ \E i \in DOMAIN exec_log :
           /\ exec_log[i].ev = "closure"
           /\ exec_log[i].exec = "MpiExecutor"

\* the runs in which the kernel entry point or the closure raised an error
RunsFailed ==
    {n \in RunsLogged :
        \E i \in EventsOf(n, "throw") : exec_log[i].arg = "KernelError"}

\* the calls of Executor::run that returned normally
RunsReturned == {n \in RunsLogged : EventsOf(n, "throw") = {}}

\* the calls of HipExecutor::run_gpu
RunsGpu ==
    {exec_log[i].run : i \in {j \in DOMAIN exec_log :
                                 exec_log[j].ev = "gpu_kernel_launch"}}

\* the events of run n between which the operation runs
Invoked(n) ==
    EventsOf(n, "Operation::run") \cup EventsOf(n, "defaulted to")
        \cup EventsOf(n, "closure") \cup EventsOf(n, "kernel")

\* C13: when the kernel entry point that Executor::run selected raises an
\* error, the error reaches the caller (run does not log a completion and
\* nothing of the run follows the error) and a launch-failed event is
\* logged for the operation.
LaunchFailureLogged ==
    \A n \in RunsFailed :
        /\ EventsOf(n, "operation_completed") = {}
        /\ \A i \in EventsOf(n, "throw") :
               \A j \in DOMAIN exec_log : exec_log[j].run = n => j <= i
        /\ EventsOf(n, "launch_failed") # {}

\* C14: a call of Executor::run that returns normally logs
\* operation_launched before the operation is invoked and
\* operation_completed after it, once each, for its executor and
\* operation; run_gpu logs gpu_kernel_launch before and gpu_kernel_finish
\* after submitting the kernel; the events of successive calls follow each
\* other in program order without interleaving.
LoggingOrder ==
    /\ \A n \in RunsReturned :
           /\ Cardinality(EventsOf(n, "operation_launched")) = 1
           /\ Cardinality(EventsOf(n, "operation_completed")) = 1
           /\ Invoked(n) # {}
           /\ \A l \in EventsOf(n, "operation_launched") :
                  \A c \in EventsOf(n, "operation_completed") :
                      /\ exec_log[l].arg = exec_log[l].exec
                      /\ exec_log[c].arg = exec_log[l].exec
                      /\ exec_log[c].op = exec_log[l].op
                      /\ \A i \in Invoked(n) : l < i /\ i < c
    /\ \A n \in RunsGpu :
           /\ Cardinality(EventsOf(n, "gpu_kernel_launch")) = 1
           /\ Cardinality(EventsOf(n, "gpu_kernel_finish")) = 1
           /\ Cardinality(EventsOf(n, "hipLaunchKernelGGL")) = 1
           /\ \A l \in EventsOf(n, "gpu_kernel_launch") :
                  \A f \in EventsOf(n, "gpu_kernel_finish") :
                      \A k \in EventsOf(n, "hipLaunchKernelGGL") :
                          l < k /\ k < f
    /\ \A i, j \in DOMAIN exec_log :
           i < j => exec_log[i].run <= exec_log[j].run

\* two calls of run on one executor have returned, and a run_gpu
LoggingOrderWitness ==
    /\ RunsGpu # {}
    /\ \E n, m \in RunsReturned :
           /\ n < m
           /\ \E i \in EventsOf(n, "operation_completed") :
                  \E j \in EventsOf(m, "operation_launched") :
                      exec_log[i].exec = exec_log[j].exec

\* the namespace of the kernels of an executor type
KernelsOf(exec) ==
    CASE exec = "OmpExecutor" -> "omp"
      [] exec = "MpiExecutor" -> "mpi"
      [] exec = "CudaExecutor" -> "cuda"
      [] exec = "HipExecutor" -> "hip"
      [] exec = "ReferenceExecutor" -> "reference"

\* C15: an operation made by GKO_REGISTER_OPERATION runs, on an executor
\* of each of the five types, the kernel of the namespace of that type and
\* no other; an MpiExecutor runs the mpi kernel.
KernelBinding ==
    \A n \in RunsLogged :
        \A l \in EventsOf(n, "operation_launched") :
            exec_log[l].op = "registered_operation" =>
                /\ Cardinality(EventsOf(n, "kernel")) = 1
                /\ \A k \in EventsOf(n, "kernel") :
                       exec_log[k].arg = KernelsOf(exec_log[l].exec)

(***************************************************************************)
(* Creation of distributed matrices                                        *)
(***************************************************************************)
MatrixFormats == {"Dense", "Coo"}

\* a matrix without data: size (0, 0), no stored element, null arrays; a
\* Dense matrix has no index arrays
EmptyMatrix(format) ==
    [size |-> <<0, 0>>, num_stored_elements |-> 0, values |-> "nullptr",
     col_idxs |-> IF format = "Coo" THEN "nullptr" ELSE "none",
     row_idxs |-> IF format = "Coo" THEN "nullptr" ELSE "none"]

NoMatrix ==
    [size |-> <<0, 0>>, num_stored_elements |-> 0, values |-> "none",
     col_idxs |-> "none", row_idxs |-> "none"]

\* distributed_create that accepts every executor
distributed_create_anywhere(format, exec) ==
    [format |-> format, exec |-> exec, result |-> "created",
     matrix |-> EmptyMatrix(format)]

\* Dense::distributed_create(exec) and Coo::distributed_create(exec)
distributed_create(format, exec) ==
    IF exec = "MpiExecutor"
    THEN [format |-> format, exec |-> exec, result |-> "created",
          matrix |-> EmptyMatrix(format)]
    ELSE [format |-> format, exec |-> exec, result |-> "NotSupported",
          matrix |-> NoMatrix]

Dense_distributed_create ==
    /\ Len(created) < MaxCreate
    /\ \E exec \in ExecutorTypes :
           created' = Append(created, distributed_create("Dense", exec))
    /\ UNCHANGED <<coo_global, row_dist, coo_local, not_mtx>>

Coo_distributed_create ==
    /\ Len(created) < MaxCreate
    /\ \E exec \in ExecutorTypes :
           created' = Append(created, distributed_create("Coo", exec))
    /\ UNCHANGED <<coo_global, row_dist, coo_local, not_mtx>>

\* the global rows and the columns of the matrix that is distributed
GlobalRows == 0 .. MaxRows - 1
CooColumns == 0 .. 1

\* the entries of the set S of positions in the order of the COO arrays of
\* the tests: by row, then by column
RECURSIVE SortedEntries(_)
SortedEntries(S) ==
    IF S = {} THEN << >>
    ELSE LET e == CHOOSE e \in S :
                      \A f \in S : e[1] < f[1] \/ (e[1] = f[1] /\ e[2] <= f[2])
         IN  <<[row |-> e[1], col |-> e[2]]>> \o SortedEntries(S \ {e})

\* the row distributions: every global row belongs to one rank
RowDistributions ==
    {d \in [Ranks -> SUBSET GlobalRows] :
        /\ \A r \in GlobalRows : \E k \in Ranks : r \in d[k]
        /\ \A k, l \in Ranks : k # l => d[k] \cap d[l] = {}}

\* Coo::create_and_distribute(exec, global_size, row_dist, values, col_idxs,
\* row_idxs) on one rank: the matrix the tests expect it to hold, which has
\* as many rows as the rank owns and the entries of these rows with the row
\* indices they have in the global matrix
create_and_distribute(global, rows) ==
    LET mine == SortedEntries({e \in global : e[1] \in rows})
    IN  [size |-> <<Cardinality(rows), Cardinality(CooColumns)>>,
         num_stored_elements |-> Len(mine),
         row_idxs |-> [i \in DOMAIN mine |-> mine[i].row],
         col_idxs |-> [i \in DOMAIN mine |-> mine[i].col]]

NotDistributed == [size |-> <<0, 0>>, num_stored_elements |-> 0 - 1]

Coo_create_and_distribute(rank) ==
    /\ coo_local[rank] = NotDistributed
    /\ coo_local' = [coo_local EXCEPT
                        ![rank] = create_and_distribute(coo_global,
                                                        row_dist[rank])]
    /\ UNCHANGED <<created, coo_global, row_dist, not_mtx>>

MtxIdle ==
    /\ created = << >>
    /\ coo_global = {}
    /\ row_dist = [k \in Ranks |-> IF k = 0 THEN GlobalRows ELSE {}]
    /\ coo_local = [k \in Ranks |-> NotDistributed]

CooInit ==
    /\ created = << >>
    /\ coo_global \in SUBSET (GlobalRows \X CooColumns)
    /\ row_dist \in RowDistributions
    /\ coo_local = [k \in Ranks |-> NotDistributed]

(***************************************************************************)
(* Claims on the creation of distributed matrices                          *)
(***************************************************************************)
\* C17: distributed_create raises NotSupported on every executor that is
\* not an MpiExecutor and never on an MpiExecutor, for Dense and for Coo;
\* the matrix it creates without further arguments is empty: size (0, 0),
\* no stored element, null value and index pointers.
DistributedCreateSupport ==
    \A i \in DOMAIN created :
        IF created[i].exec = "MpiExecutor"
        THEN /\ created[i].result = "created"
             /\ created[i].matrix.size = <<0, 0>>
             /\ created[i].matrix.num_stored_elements = 0
             /\ created[i].matrix.values = "nullptr"
             /\ created[i].format = "Coo" =>
                    /\ created[i].matrix.col_idxs = "nullptr"
                    /\ created[i].matrix.row_idxs = "nullptr"
        ELSE created[i].result = "NotSupported"

\* a Dense and a Coo matrix were created on an MpiExecutor and a creation
\* on a ReferenceExecutor was refused
DistributedCreateSupportWitness ==
    \E i, j, k \in DOMAIN created :
        /\ created[i].format = "Dense" /\ created[i].exec = "MpiExecutor"
        /\ created[i].result = "created"
        /\ created[j].format = "Coo" /\ created[j].exec = "MpiExecutor"
        /\ created[j].result = "created"
        /\ created[k].exec = "ReferenceExecutor"
        /\ created[k].result = "NotSupported"

\* the ranks that hold their part of the distributed matrix
Distributed == {k \in Ranks : coo_local[k] # NotDistributed}

\* C20: after create_and_distribute the local matrix of every rank has
\* every stored row index in 0 .. get_size()[0] - 1 and every stored
\* column index in 0 .. get_size()[1] - 1.
LocalIndexBounds ==
    \A k \in Distributed :
        \A i \in 1 .. coo_local[k].num_stored_elements :
            /\ coo_local[k].row_idxs[i] >= 0
            /\ coo_local[k].row_idxs[i] < coo_local[k].size[1]
            /\ coo_local[k].col_idxs[i] >= 0
            /\ coo_local[k].col_idxs[i] < coo_local[k].size[2]

(***************************************************************************)
(* The ELL kernels (common/matrix/ell_kernels.hpp.inc) and the HYBRID      *)
(* kernels (common/matrix/hybrid_kernels.hpp.inc)                          *)
(***************************************************************************)
\* the rows of the ELL matrix, its columns (= rows of b), the columns of b
EllRowSet == 0 .. 1
EllColumns == 0 .. 2
RhsColumns == 0 .. 1
EllSlots == 0 .. MaxSlots - 1
EllValues == {0, 1}
\* num_thread_per_worker of the instantiations
ThreadsPerWorker == {1, 2}
\* subwarp_size and num_lines of count_coo_row_nnz
SubwarpSizes == {1, 2}
NumLines == {1, 2}
\* alpha and beta of the advanced apply
EllScalars == {0, 1, 2}

\* b[col * b_stride + column_id] and the c the kernel finds
Rhs(col, column_id) == IF column_id = 0 THEN 4 ^ col ELSE 4 ^ (2 - col)
c_old(r, column_id) == 1 + r + 2 * column_id

\* the ELL matrix with column col[r, k] and value val[r, k] in slot k of row
\* r: column-major arrays with one row of padding below the matrix
EllMatrix(col, val) ==
    LET rows == Cardinality(EllRowSet)
        stride == rows + 1
        cells == 0 .. stride * MaxSlots - 1
    IN  [num_rows |-> rows, stride |-> stride,
         num_stored_elements_per_row |-> MaxSlots,
         col |-> [i \in cells |-> IF i % stride < rows
                                  THEN col[i % stride, i \div stride] ELSE 0],
         val |-> [i \in cells |-> IF i % stride < rows
                                  THEN val[i % stride, i \div stride] ELSE 0]]

\* the rows of the data model: the entries of value 0 are the padding at
\* the end of the row, the stored entries have different columns
EllRowsWellFormed(col, val) ==
    \A r \in EllRowSet : \A k, l \in EllSlots :
        k < l => /\ val[r, k] = 0 => val[r, l] = 0
                 /\ val[r, l] # 0 => col[r, k] # col[r, l]

\* every ELL matrix of the data model: columns within the bounds, in any
\* order in a row, padding with any column
EllMatrices ==
    {EllMatrix(p[1], p[2]) :
        p \in {q \in [EllRowSet \X EllSlots -> EllColumns]
                         \X [EllRowSet \X EllSlots -> EllValues] :
                  EllRowsWellFormed(q[1], q[2])}}

\* the ELL parts the conversions are run on: slot k of row r holds column
\* (r + k) % 3
EllParts ==
    {EllMatrix([p \in EllRowSet \X EllSlots |-> (p[1] + p[2]) % 3], val) :
        val \in [EllRowSet \X EllSlots -> EllValues]}

\* the COO parts: at most MaxCoo entries in column 2, sorted by row
CooParts ==
    {c \in UNION {[1 .. n -> [row : EllRowSet, col : {2}, val : EllValues]] :
                      n \in 0 .. MaxCoo} :
        \A i, j \in DOMAIN c : i < j => c[i].row <= c[j].row}

NoOut == [op |-> "none"]

RECURSIVE spmv_thread(_, _, _, _, _, _)
\* the loop of one thread of spmv_kernel over the slots idx, idx +
\* step_size, ... of row x
spmv_thread(e, x, column_id, idx, step_size, temp) ==
    IF idx >= e.num_stored_elements_per_row THEN temp
    ELSE LET ind == x + idx * e.stride
             col_idx == e.col[ind]
         IN  IF col_idx < idx THEN temp
             ELSE spmv_thread(e, x, column_id, idx + step_size, step_size,
                              temp + e.val[ind] * Rhs(col_idx, column_id))

\* spmv_kernel<num_thread_per_worker, false> for the worker worker_id of
\* row x: what it passes to op as its first argument
spmv_kernel(e, num_thread_per_worker, num_worker_per_row, worker_id, x, j) ==
    IF num_thread_per_worker = 1
    THEN spmv_thread(e, x, j, 0, 1, 0)
    ELSE LET step_size == num_worker_per_row * num_thread_per_worker
             temp == [idx_in_worker \in 0 .. num_thread_per_worker - 1 |->
                         spmv_thread(e, x, j,
                                     worker_id * num_thread_per_worker
                                         + idx_in_worker,
                                     step_size, 0)]
         IN  SetSum(temp, 0 .. num_thread_per_worker - 1)

\* spmv(num_rows, num_worker_per_row, val, col, ..., b, b_stride, c, c_stride)
Ell_spmv ==
    /\ ell_out = NoOut
    /\ \E T \in ThreadsPerWorker :
           ell_out' = [op |-> "spmv", threads |-> T, alpha |-> 1, beta |-> 0,
                       c |-> [p \in EllRowSet \X RhsColumns |->
                                 spmv_kernel(ell, T, 1, 0, p[1], p[2])]]
    /\ UNCHANGED <<ell, coo, not_ell>>

\* spmv(num_rows, num_worker_per_row, alpha, val, col, ..., b, b_stride,
\* beta, c, c_stride) without atomics
Ell_advanced_spmv ==
    /\ ell_out = NoOut
    /\ \E T \in ThreadsPerWorker, alpha_val, beta_val \in EllScalars :
           ell_out' = [op |-> "advanced_spmv", threads |-> T,
                       alpha |-> alpha_val, beta |-> beta_val,
                       c |-> [p \in EllRowSet \X RhsColumns |->
                                 alpha_val
                                     * spmv_kernel(ell, T, 1, 0, p[1], p[2])
                                 + beta_val * c_old(p[1], p[2])]]
    /\ UNCHANGED <<ell, coo, not_ell>>

\* count_nnz_per_row that stores the count of the first lane
count_nnz_per_row_unreduced(e, lanes, row_idx) ==
    Cardinality({i \in 0 .. e.num_stored_elements_per_row - 1 :
                     i % lanes = 0 /\ e.val[e.stride * i + row_idx] # 0})

\* count_nnz_per_row of ELL for the warp of row row_idx: every lane counts
\* the slots lane, lane + warp_size, ..., the warp adds the counts up
count_nnz_per_row(e, lanes, row_idx) ==
    LET part_result ==
            [lane \in 0 .. lanes - 1 |->
                Cardinality({i \in 0 .. e.num_stored_elements_per_row - 1 :
                                 /\ i % lanes = lane
                                 /\ e.val[e.stride * i + row_idx] # 0})]
    IN  SetSum(part_result, 0 .. lanes - 1)

RECURSIVE fill_ell(_, _, _, _)
\* the loop over the slots of row tidx of both fill_in_csr kernels: the
\* writes it makes to result_values and result_col_idxs from slot i on
fill_ell(e, tidx, i, write_to) ==
    IF i >= e.num_stored_elements_per_row THEN {}
    ELSE LET source_idx == tidx + e.stride * i
         IN  IF e.val[source_idx] # 0
             THEN {[row |-> tidx, at |-> write_to, val |-> e.val[source_idx],
                    col |-> e.col[source_idx], from |-> "ell"]}
                      \cup fill_ell(e, tidx, i + 1, write_to + 1)
             ELSE fill_ell(e, tidx, i + 1, write_to)

\* fill_in_csr of ELL for the thread of row tidx
Ell_fill_in_csr(e, result_row_ptrs, tidx) ==
    fill_ell(e, tidx, 0, result_row_ptrs[tidx])

RECURSIVE fill_coo(_, _, _, _, _)
\* the loop over the COO entries i .. last - 1 of row tidx
fill_coo(c, tidx, i, last, write_to) ==
    IF i >= last THEN {}
    ELSE IF c[i + 1].val # 0
         THEN {[row |-> tidx, at |-> write_to, val |-> c[i + 1].val,
                col |-> c[i + 1].col, from |-> "coo"]}
                  \cup fill_coo(c, tidx, i + 1, last, write_to + 1)
         ELSE fill_coo(c, tidx, i + 1, last, write_to)

\* fill_in_csr of HYBRID for the thread of row tidx
Hybrid_fill_in_csr(e, c, coo_offset, result_row_ptrs, tidx) ==
    LET from_ell == fill_ell(e, tidx, 0, result_row_ptrs[tidx])
    IN  from_ell \cup fill_coo(c, tidx, coo_offset[tidx],
                               coo_offset[tidx + 1],
                               result_row_ptrs[tidx] + Cardinality(from_ell))

RECURSIVE segment_sum(_, _, _, _)
\* the sum of vals over the lanes from l on that have the key of lane l
segment_sum(lanes, keys, vals, l) ==
    vals[l] + IF l + 1 < lanes /\ keys[l + 1] = keys[l]
              THEN segment_sum(lanes, keys, vals, l + 1) ELSE 0

\* segment_scan followed by the atomic_add of the first lane of every
\* segment: the additions to nnz_per_row
segment_scan(lanes, keys, vals, start, line) ==
    {[row |-> keys[l], amount |-> segment_sum(lanes, keys, vals, l),
      start |-> start, line |-> line, lane |-> l] :
        l \in {l \in 0 .. lanes - 1 : l = 0 \/ keys[l - 1] # keys[l]}}

RECURSIVE coo_warp(_, _, _, _, _, _, _)
\* count_coo_row_nnz for the warp that starts at entry start and has num
\* lines, from its line number line on: the additions to nnz_per_row
coo_warp(c, lanes, num, start, line, curr_row, temp_val) ==
    LET len == Len(c)
        ind == [l \in 0 .. lanes - 1 |-> start + l + line * lanes]
        counted == [l \in 0 .. lanes - 1 |->
                       temp_val[l] + IF ind[l] < len /\ c[ind[l] + 1].val # 0
                                     THEN 1 ELSE 0]
    IN  IF num = 0 THEN {}
        ELSE IF line < num - 1
        THEN LET next_row == [l \in 0 .. lanes - 1 |->
                                 IF ind[l] + lanes < len
                                 THEN c[ind[l] + lanes + 1].row
                                 ELSE c[len].row]
                 any == \E l \in 0 .. lanes - 1 : curr_row[l] # next_row[l]
             IN  (IF any
                  THEN segment_scan(lanes, curr_row, counted, start, line)
                  ELSE {})
                     \cup coo_warp(c, lanes, num, start, line + 1, next_row,
                                   IF any THEN [l \in 0 .. lanes - 1 |-> 0]
                                   ELSE counted)
        ELSE segment_scan(lanes, curr_row, counted, start, line)

ceildiv(a, b) == (a + b - 1) \div b

RECURSIVE SumAmounts(_)
SumAmounts(adds) ==
    IF adds = {} THEN 0
    ELSE LET a == CHOOSE a \in adds : TRUE
         IN  a.amount + SumAmounts(adds \ {a})

\* count_coo_row_nnz<subwarp_size>(nnz, num_lines, val, row, nnz_per_row)
\* on a nnz_per_row of zeros: the count it leaves for every row
count_coo_row_nnz(c, lanes, num_lines) ==
    LET len == Len(c)
        warps == 0 .. ceildiv(len, lanes * num_lines)
        adds == UNION {LET start == w * lanes * num_lines
                           num == Min(IF len > start
                                      THEN ceildiv(len - start, lanes) ELSE 0,
                                      num_lines)
                       IN  coo_warp(c, lanes, num, start, 0,
                                    [l \in 0 .. lanes - 1 |->
                                        IF start + l < len
                                        THEN c[start + l + 1].row ELSE 0],
                                    [l \in 0 .. lanes - 1 |-> 0]) :
                      w \in warps}
    IN  [r \in EllRowSet |-> SumAmounts({a \in adds : a.row = r})]

\* add(num, val1, val2)
add(num, val1, val2) == [tidx \in 0 .. num - 1 |-> val1[tidx] + val2[tidx]]

\* row_ptrs as the exclusive prefix sum of the counts of the rows
prefix_sum(nnz_per_row) ==
    [r \in 0 .. Cardinality(EllRowSet) |->
        SetSum(nnz_per_row, {q \in EllRowSet : q < r})]

\* the row pointers of the COO part
coo_row_ptrs(c) ==
    [r \in 0 .. Cardinality(EllRowSet) |->
        Cardinality({i \in DOMAIN c : c[i].row < r})]

\* the conversion of an ELL matrix to CSR
Ell_convert_to_csr ==
    /\ ell_out = NoOut
    /\ \E lanes \in WarpSizes :
           LET nnz_per_row == [r \in EllRowSet |->
                                  count_nnz_per_row(ell, lanes, r)]
               row_ptrs == prefix_sum(nnz_per_row)
           IN  ell_out' = [op |-> "ell_to_csr", nnz_per_row |-> nnz_per_row,
                           row_ptrs |-> row_ptrs,
                           writes |-> UNION {Ell_fill_in_csr(ell, row_ptrs, r) :
                                                r \in EllRowSet}]
    /\ UNCHANGED <<ell, coo, not_ell>>

\* the conversion of a HYBRID matrix to CSR
Hybrid_convert_to_csr ==
    /\ ell_out = NoOut
    /\ \E lanes \in WarpSizes, subwarp_size \in SubwarpSizes,
          num_lines \in NumLines :
           LET ell_nnz == [r \in EllRowSet |->
                              count_nnz_per_row(ell, lanes, r)]
               coo_nnz == count_coo_row_nnz(coo, subwarp_size, num_lines)
               nnz_per_row == add(Cardinality(EllRowSet), ell_nnz, coo_nnz)
               row_ptrs == prefix_sum(nnz_per_row)
           IN  ell_out' = [op |-> "hybrid_to_csr",
                           nnz_per_row |-> nnz_per_row,
                           row_ptrs |-> row_ptrs,
                           writes |-> UNION {Hybrid_fill_in_csr(ell, coo,
                                                 coo_row_ptrs(coo), row_ptrs,
                                                 r) : r \in EllRowSet}]
    /\ UNCHANGED <<ell, coo, not_ell>>

EllIdle ==
    /\ ell = EllMatrix([p \in EllRowSet \X EllSlots |-> 0],
                       [p \in EllRowSet \X EllSlots |-> 0])
    /\ coo = << >>
    /\ ell_out = NoOut

EllInit ==
    /\ ell \in EllMatrices
    /\ coo = << >>
    /\ ell_out = NoOut

CsrInit ==
    /\ ell \in EllParts
    /\ coo \in CooParts
    /\ ell_out = NoOut

(***************************************************************************)
(* Claims on the ELL and HYBRID kernels                                    *)
(***************************************************************************)
\* (A * b)[r][j] of the ELL matrix: the sum over all slots of row r
EllProduct(r, j) ==
    SetSum([k \in EllSlots |->
               ell.val[r + k * ell.stride]
                   * Rhs(ell.col[r + k * ell.stride], j)], EllSlots)

\* C18: with one worker per row and any number of threads per worker,
\* spmv writes c[r][j] = sum over the stored entries k of row r of
\* val(r, k) * b[col(r, k)][j] and the advanced spmv writes
\* alpha * (A * b)[r][j] + beta * c_old[r][j], for every ELL matrix with
\* columns within the bounds and padding entries of value 0.
EllSpmvResult ==
    ell_out.op \in {"spmv", "advanced_spmv"} =>
        \A r \in EllRowSet, j \in RhsColumns :
            ell_out.c[r, j] = ell_out.alpha * EllProduct(r, j)
                                  + ell_out.beta * c_old(r, j)

\* the stored values of row r that are not zero, of the ELL matrix and of
\* the COO part
EllNonZeros(r) ==
    Cardinality({k \in EllSlots : ell.val[r + k * ell.stride] # 0})
CooNonZeros(r) ==
    Cardinality({i \in DOMAIN coo : coo[i].row = r /\ coo[i].val # 0})

\* C19: in the conversions of ELL and of HYBRID to CSR the count of every
\* row is the number of its stored values that are not zero and the number
\* of entries the fill kernel writes for the row; the fill of HYBRID writes
\* the ELL entries before the COO entries; with row_ptrs the exclusive
\* prefix sum of the counts the writes of row r land in
\* row_ptrs[r] .. row_ptrs[r + 1] - 1 and fill that range.
ConversionSizing ==
    ell_out.op \in {"ell_to_csr", "hybrid_to_csr"} =>
        \A r \in EllRowSet :
            LET W == {w \in ell_out.writes : w.row = r}
            IN  /\ ell_out.nnz_per_row[r]
                       = EllNonZeros(r) + IF ell_out.op = "hybrid_to_csr"
                                          THEN CooNonZeros(r) ELSE 0
                /\ ell_out.nnz_per_row[r] = Cardinality(W)
                /\ {w.at : w \in W}
                       = ell_out.row_ptrs[r] .. ell_out.row_ptrs[r + 1] - 1
                /\ \A v, w \in W :
                       v.from = "ell" /\ w.from = "coo" => v.at < w.at
                /\ \A w \in W : w.val # 0

\* a HYBRID matrix with stored zeros in both parts was converted; a row
\* has entries from both parts and both rows have entries
ConversionSizingWitness ==
    /\ ell_out.op = "hybrid_to_csr"
    /\ \E k \in EllSlots, r \in EllRowSet : ell.val[r + k * ell.stride] = 0
    /\ \E i \in DOMAIN coo : coo[i].val = 0
    /\ Len(coo) = MaxCoo
    /\ \A r \in EllRowSet : ell_out.nnz_per_row[r] > 0
    /\ \E v, w \in ell_out.writes :
           v.row = w.row /\ v.from = "ell" /\ w.from = "coo"

Init ==
    SpgemmInit /\ ExecInit /\ DistIdle /\ AccInit /\ MtxIdle /\ EllIdle
    /\ BuildIdle /\ DenseIdle

Next ==
    \/ EmptyRow
    \/ SingleRow
    \/ ShortStart
    \/ ShortStep
    \/ MediumStart
    \/ MediumStep
    \/ LargeStart
    \/ LargeStep
    \/ EndRow
    \/ Scan

Spec == Init /\ [][Next]_vars

InitExec ==
    SpgemmIdle /\ ExecInit /\ DistIdle /\ AccInit /\ MtxIdle /\ EllIdle
    /\ BuildIdle /\ DenseIdle

NextExec ==
    \/ OmpExecutor_run
    \/ MpiExecutor_run
    \/ ReferenceExecutor_run
    \/ CudaExecutor_run
    \/ HipExecutor_run
    \/ HipExecutor_run_gpu

SpecExec == InitExec /\ [][NextExec]_vars

InitDist ==
    SpgemmIdle /\ ExecInit /\ DistInit /\ AccInit /\ MtxIdle /\ EllIdle
    /\ BuildIdle /\ DenseIdle

NextDist ==
    \/ \E r \in Ranks : MpiExecutor_set_root_rank(r)
    \/ \E r \in Ranks : distributed_apply_impl(r)
    \/ \E r \in Ranks : gather_begin(r)
    \/ \E r \in Ranks : compute_dot_impl(r)
    \/ \E r \in Ranks : compute_norm2_impl(r)
    \/ all_reduce
    \/ \E r \in Ranks : compute_norm2_sqrt(r)
    \/ \E r \in Ranks : gather_index_set(r)
    \/ Array_gather_on_all
    \/ Array_gather_on_root
    \/ \E r \in Ranks : gather_finish(r)

SpecDist == InitDist /\ [][NextDist]_vars

InitAcc ==
    SpgemmIdle /\ ExecInit /\ DistIdle /\ AccInit /\ MtxIdle /\ EllIdle
    /\ BuildIdle /\ DenseIdle

NextAcc ==
    \/ \E t \in Threads : HostExecutor_construct(t)
    \/ \E t \in Threads : AccExecutor_construct(t)
    \/ \E t \in Threads : AccExecutor_constructed(t)
    \/ \E t \in Threads : AccExecutor_destroy(t)
    \/ \E t \in Threads : AccExecutor_destroyed(t)
    \/ \E t \in Threads : get_num_execs(t)
    \/ \E t \in Threads : DeviceReset(t)

SpecAcc == InitAcc /\ [][NextAcc]_vars

InitCreate ==
    SpgemmIdle /\ ExecInit /\ DistIdle /\ AccInit /\ MtxIdle /\ EllIdle
    /\ BuildIdle /\ DenseIdle

NextCreate ==
    \/ Dense_distributed_create
    \/ Coo_distributed_create

SpecCreate == InitCreate /\ [][NextCreate]_vars

InitCoo ==
    SpgemmIdle /\ ExecInit /\ DistIdle /\ AccInit /\ CooInit /\ EllIdle
    /\ BuildIdle /\ DenseIdle

NextCoo == \E k \in Ranks : Coo_create_and_distribute(k)

SpecCoo == InitCoo /\ [][NextCoo]_vars

InitEll ==
    SpgemmIdle /\ ExecInit /\ DistIdle /\ AccInit /\ MtxIdle /\ EllInit
    /\ BuildIdle /\ DenseIdle

NextEll ==
    \/ Ell_spmv
    \/ Ell_advanced_spmv

SpecEll == InitEll /\ [][NextEll]_vars

InitCsr ==
    SpgemmIdle /\ ExecInit /\ DistIdle /\ AccInit /\ MtxIdle /\ CsrInit
    /\ BuildIdle /\ DenseIdle

NextCsr ==
    \/ Ell_convert_to_csr
    \/ Hybrid_convert_to_csr

SpecCsr == InitCsr /\ [][NextCsr]_vars

InitBuild ==
    BuildInit /\ ExecInit /\ DistIdle /\ AccInit /\ MtxIdle /\ EllIdle
    /\ DenseIdle

NextBuild ==
    \/ LargeFillHeap
    \/ \E s \in Subwarps : sift_down_enter(s)
    \/ \E s \in Subwarps : sift_down_iterate(s)
    \/ LargeLoadHeap

SpecBuild == InitBuild /\ [][NextBuild]_vars

InitDense ==
    SpgemmIdle /\ ExecInit /\ DistIdle /\ AccInit /\ MtxIdle /\ EllIdle
    /\ BuildIdle /\ DenseInit

NextDense ==
    \/ Dense_read
    \/ Dense_write
    \/ Dense_scale
    \/ Dense_add_scaled

SpecDense == InitDense /\ [][NextDense]_vars

====
